---- MODULE Spec2Model ----
(***************************************************************************)
(* NapCat channel: one Account Session (NapCatRuntime) with its Action     *)
(* Client (NapCatApiClient), the sockets the session creates, the          *)
(* reconnect timers and the socket-transported requests.                   *)
(***************************************************************************)
EXTENDS Integers, Sequences, FiniteSets, Bags, TLC

VARIABLES
    account,   \* NapCatAccount: wsUrl, httpUrl
    rt,        \* NapCatRuntime: ws, reconnectAttempts, isClosing, plus start()'s position
    socks,     \* the WebSocket objects: readyState, whether the session's handlers are attached
    timers,    \* pending setTimeout callbacks of scheduleReconnect
    api,       \* NapCatApiClient: httpUrl, ws, wsSequence, responseEmitter, request timers, calls
    out,       \* what the step just taken emitted: frames written, onError and onMessage calls
    last,      \* the step just taken (history, written by every action)
    adminUins,      \* account.adminUins as the onMessage closure reads it
    recentReplies,  \* the recentReplies Map of channel.ts: key -> text, timestamp
    dispatched,     \* the inbound messages handed to the host's reply dispatcher
    sending,        \* deliver() calls suspended at await client.sendMessage
    clock,          \* the latest value Date.now() returned
    emitted         \* what the channel step just taken did

chanvars == <<adminUins, recentReplies, dispatched, sending, clock, emitted>>

vars == <<account, rt, socks, timers, api, out, last, chanvars>>

(***************************************************************************)
(* Bounds of the model                                                     *)
(***************************************************************************)
MaxCalls == 2      \* action calls issued on the client in one run
MaxRetries == 2    \* Spec follows consecutive reconnect attempts up to this many
NumSockets == 3    \* socket slots; a slot is reused once its socket is unreachable
MaxDispatched == 1 \* inbound messages InboundSpec hands to the dispatcher in one run
MaxSending == 2    \* deliver() calls awaiting their send at the same time

(***************************************************************************)
(* Program constants                                                       *)
(***************************************************************************)
maxReconnectAttempts == 10
baseReconnectDelay == 3000
maxReconnectDelay == 60000   \* the cap in scheduleReconnect
REPLY_DEDUP_WINDOW_MS == 5000

NULL == 0    \* null: no socket
SockIds == 1..NumSockets

(***************************************************************************)
(* Strings that the code edits are sequences of pieces, "/" being a piece  *)
(***************************************************************************)
Truthy(s) == s # <<>>

\* config.httpUrl.replace(/\/$/, '')
StripTrailingSlash(s) ==
    IF Len(s) > 0 /\ s[Len(s)] = "/" THEN SubSeq(s, 1, Len(s) - 1) ELSE s

\* endpoint.replace(/^\//, '')
StripLeadingSlash(s) ==
    IF Len(s) > 0 /\ s[1] = "/" THEN Tail(s) ELSE s

HttpUrls == {<<>>, <<"/">>, <<"http://h">>, <<"http://h", "/">>}
WsUrls == {<<>>, <<"ws://h">>, <<"not a url">>}

\* new WebSocket(url) throws a SyntaxError on a URL it cannot parse
ValidWsUrl(u) == u = <<"ws://h">>

Accounts == [wsUrl : WsUrls, httpUrl : HttpUrls]

(***************************************************************************)
(* Action Client (NapCatApiClient)                                         *)
(***************************************************************************)
\* A wrapper invocation: the wrapper and, for sendMessage, params.message_type
Invocations ==
    [fn : {"sendMessage"}, message_type : {"private", "group", "none"}]
    \cup [fn : {"deleteMessage", "getUserInfo", "getGroupInfo", "getLoginInfo",
                "getGroupFileUrl", "getPrivateFileUrl"},
          message_type : {"none"}]

GetLoginInfo == [fn |-> "getLoginInfo", message_type |-> "none"]

\* The endpoint each wrapper passes to request()
EndpointOf(inv) ==
    CASE inv.fn = "sendMessage" ->
            IF inv.message_type = "group" THEN <<"/", "send_group_msg">>
            ELSE IF inv.message_type = "private" THEN <<"/", "send_private_msg">>
            ELSE <<"/", "send_msg">>
      [] inv.fn = "deleteMessage" -> <<"/", "delete_msg">>
      [] inv.fn = "getUserInfo" -> <<"/", "get_stranger_info">>
      [] inv.fn = "getGroupInfo" -> <<"/", "get_group_info">>
      [] inv.fn = "getLoginInfo" -> <<"/", "get_login_info">>
      [] inv.fn = "getGroupFileUrl" -> <<"/", "get_group_file_url">>
      [] inv.fn = "getPrivateFileUrl" -> <<"/", "get_private_file_url">>

\* The body each wrapper passes to request(), by the names of its fields
BodyOf(inv) ==
    CASE inv.fn = "sendMessage" -> <<"params">>
      [] inv.fn = "deleteMessage" -> <<"message_id">>
      [] inv.fn = "getUserInfo" -> <<"user_id">>
      [] inv.fn = "getGroupInfo" -> <<"group_id">>
      [] inv.fn = "getLoginInfo" -> <<>>
      [] inv.fn = "getGroupFileUrl" -> <<"group_id", "file_id">>
      [] inv.fn = "getPrivateFileUrl" -> <<"file_id">>

\* Mutant: the token is made of the time alone
MakeEchoOfTime(now, seq) == <<"api", now, 0>>

\* `api_${Date.now()}_${this.wsSequence++}`: the pieces between the underscores
MakeEcho(now, seq) == <<"api", now, seq>>

NoEcho == <<"undefined">>   \* the frame has no echo field
EmptyEcho == <<>>           \* echo: ""
EchoTruthy(e) == e # NoEcho /\ e # EmptyEcho

\* new NapCatApiClient(config)
NewClient(config) ==
    [httpUrl |-> IF Truthy(config.httpUrl) THEN StripTrailingSlash(config.httpUrl) ELSE <<>>,
     ws |-> NULL,
     wsSequence |-> 0,
     responseEmitter |-> {},  \* once-listeners: [echo, call]
     timeouts |-> {},          \* calls whose 10 s timer is armed
     calls |-> <<>>]           \* every call issued: caller, transport, echo, sock, outcomes

\* Nothing emitted yet by the running handler
Silent == [wire |-> {}, posts |-> {}, heard |-> {}, errors |-> {}, forwarded |-> 0,
           issued |-> {}, thrown |-> FALSE]

\* setWs(ws)
SetWs(a, ws) == [a EXCEPT !.ws = ws]

\* Mutant: an open socket is preferred to the HTTP endpoint
TransportSocketFirst(a, sk) ==
    IF a.ws # NULL /\ sk[a.ws].readyState = "OPEN" THEN "ws"
    ELSE IF Truthy(a.httpUrl) THEN "http"
    ELSE "none"

\* Mutant: the socket is used whenever the client holds one, open or not
TransportAnySocket(a, sk) ==
    IF Truthy(a.httpUrl) THEN "http"
    ELSE IF a.ws # NULL THEN "ws"
    ELSE "none"

\* request(): HTTP when configured, else the socket when it is open, else throw
TransportFor(a, sk) ==
    IF Truthy(a.httpUrl) THEN "http"
    ELSE IF a.ws # NULL /\ sk[a.ws].readyState = "OPEN" THEN "ws"
    ELSE "none"

\* What request() finds in this.ws: NULL, or the socket's readyState
Seen(a, sk) == IF a.ws = NULL THEN "NULL" ELSE sk[a.ws].readyState

NewCall(caller, transport, echo, sock, outcomes) ==
    [caller |-> caller, transport |-> transport, echo |-> echo, sock |-> sock,
     outcomes |-> outcomes]

\* The call a wrapper is about to issue, as the step's output records it
Issue(w, inv) ==
    [w EXCEPT !.out.issued =
        @ \cup {[id |-> Len(w.api.calls) + 1, inv |-> inv, seen |-> Seen(w.api, w.socks)]}]

\* The frame requestWs writes for a call: JSON.stringify({action, params, echo})
FrameOf(endpoint, params, echo) ==
    [action |-> StripLeadingSlash(endpoint), params |-> params, echo |-> echo]

\* requestHttp(): one fetch(url, {method: 'POST'}); the POST is in flight until
\* HttpRespond
RequestHttp(w, caller, endpoint, body) ==
    [w EXCEPT !.api.calls = Append(@, NewCall(caller, "http", NoEcho, NULL, <<>>)),
              !.out.posts = @ \cup {[call |-> Len(w.api.calls) + 1,
                                     url |-> w.api.httpUrl \o endpoint,
                                     body |-> body]}]

\* requestWs(): token, timer, once-listener, then ws.send
RequestWs(w, caller, endpoint, params, now) ==
    IF w.api.ws = NULL
    THEN [w EXCEPT !.api.calls =
                      Append(@, NewCall(caller, "ws", NoEcho, NULL, <<"notInitialized">>))]
    ELSE LET echo == MakeEcho(now, w.api.wsSequence)
             id == Len(w.api.calls) + 1
         IN [w EXCEPT !.api.wsSequence = @ + 1,
                      !.api.timeouts = @ \cup {id},
                      !.api.responseEmitter = @ \cup {[echo |-> echo, call |-> id]},
                      !.api.calls = Append(@, NewCall(caller, "ws", echo, w.api.ws, <<>>)),
                      !.out.wire = @ \cup {[sock |-> w.api.ws,
                                            frame |-> FrameOf(endpoint, params, echo)]}]

\* request(endpoint, body)
Request(w, caller, endpoint, params, now) ==
    CASE TransportFor(w.api, w.socks) = "http" -> RequestHttp(w, caller, endpoint, params)
      [] TransportFor(w.api, w.socks) = "ws" -> RequestWs(w, caller, endpoint, params, now)
      [] OTHER -> [w EXCEPT !.api.calls =
                               Append(@, NewCall(caller, "none", NoEcho, NULL, <<"noTransport">>))]

\* The wrappers: sendMessage, deleteMessage, getUserInfo, getGroupInfo, getLoginInfo,
\* getGroupFileUrl, getPrivateFileUrl
Invoke(w, caller, inv, now) ==
    Request(Issue(w, inv), caller, EndpointOf(inv), BodyOf(inv), now)

\* Mutant: a failed status rejects whatever the retcode
ResponseOutcomeOfStatus(response) ==
    IF response.status = "failed" THEN "protocolError" ELSE "data"

\* The listener of requestWs: reject on failed status with nonzero retcode, else resolve
ResponseOutcome(response) ==
    IF response.status = "failed" /\ response.retcode # 0 THEN "protocolError" ELSE "data"

\* What the fetch of requestHttp comes back with: a rejection (no response), a
\* response whose status is not 2xx, or a 2xx response with its JSON body
HttpResponse(http, result) ==
    [http |-> http, status |-> result[1], retcode |-> result[2]]

\* Mutant: a failed status with retcode 0 is thrown too
HttpOutcomeOfStatus(response) ==
    IF response.http = "rejected" THEN "networkError"
    ELSE IF response.http # "2xx" THEN "httpError"
    ELSE IF response.status = "failed" THEN "protocolError"
    ELSE "data"

\* requestHttp() after the fetch: throw on !response.ok, throw on a failed status
\* with a nonzero retcode, else return result.data
HttpOutcome(response) ==
    IF response.http = "rejected" THEN "networkError"
    ELSE IF response.http # "2xx" THEN "httpError"
    ELSE IF response.status = "failed" /\ response.retcode # 0 THEN "protocolError"
    ELSE "data"

\* What a completion callback was handed: the response, for the call it settles
Heard(call, http, response) ==
    [call |-> call, http |-> http, status |-> response.status, retcode |-> response.retcode]

\* Mutant: responseEmitter.on, the listener stays after the event
ListenersKeptAfterEmit(em, echo) == em

\* Mutant: the timeout callback leaves the listener registered
ListenersKeptAfterTimeout(em, echo) == em

\* responseEmitter.once: the listeners of an event are removed when it is emitted
ListenersAfterEmit(em, echo) == {l \in em : l.echo # echo}

\* responseEmitter.removeAllListeners(echo)
RemoveAllListeners(em, echo) == {l \in em : l.echo # echo}

\* handleWsResponse(payload): emit payload.echo to its listeners, each of which
\* clears its timer and settles its call
HandleWsResponse(a, payload) ==
    IF ~EchoTruthy(payload.echo) THEN a
    ELSE LET hit == {l.call : l \in {x \in a.responseEmitter : x.echo = payload.echo}}
         IN [a EXCEPT !.responseEmitter = ListenersAfterEmit(@, payload.echo),
                      !.timeouts = @ \ hit,
                      !.calls = [i \in DOMAIN a.calls |->
                                   IF i \in hit
                                   THEN [a.calls[i] EXCEPT
                                            !.outcomes = Append(@, ResponseOutcome(payload))]
                                   ELSE a.calls[i]]]

\* Mutant: the timer removes the listener and leaves the promise unsettled
TimeoutFiresUnsettled(a, id) ==
    [a EXCEPT !.timeouts = @ \ {id},
              !.responseEmitter = RemoveAllListeners(@, a.calls[id].echo)]

\* The setTimeout callback of requestWs for call id
TimeoutFires(a, id) ==
    [a EXCEPT !.timeouts = @ \ {id},
              !.responseEmitter = RemoveAllListeners(@, a.calls[id].echo),
              !.calls[id].outcomes = Append(@, "timeout")]

(***************************************************************************)
(* Account Session (NapCatRuntime)                                         *)
(***************************************************************************)
\* The state a handler starts from, as one record; it has emitted nothing yet
Cur == [rt |-> rt, socks |-> socks, timers |-> timers, api |-> api, out |-> Silent]

\* Mutant: a reported error takes the session out of the registry
OnErrorUnregisters(w, kind) ==
    [w EXCEPT !.out.errors = @ \cup {kind}, !.rt.registered = FALSE]

\* config.onError(error)
OnError(w, kind) == [w EXCEPT !.out.errors = @ \cup {kind}]

RECURSIVE Pow(_, _)
Pow(b, e) == IF e = 0 THEN 1 ELSE b * Pow(b, e - 1)

\* Mutant: the exponent is n, not n - 1
ReconnectDelayFromN(n) ==
    LET num == baseReconnectDelay * Pow(3, n)
        den == Pow(2, n)
    IN IF num > maxReconnectDelay * den
       THEN [num |-> maxReconnectDelay, den |-> 1]
       ELSE [num |-> num, den |-> den]

\* Math.min(baseReconnectDelay * Math.pow(1.5, n - 1), 60000) as the exact fraction
\* num/den (1.5 = 3/2; the doubles are exact for n <= 10)
ReconnectDelay(n) ==
    LET num == baseReconnectDelay * Pow(3, n - 1)
        den == Pow(2, n - 1)
    IN IF num > maxReconnectDelay * den
       THEN [num |-> maxReconnectDelay, den |-> 1]
       ELSE [num |-> num, den |-> den]

\* Mutant: scheduleReconnect without the test of account.wsUrl
ScheduleReconnectWithoutWsUrl(w) ==
    IF w.rt.isClosing THEN w
    ELSE IF w.rt.reconnectAttempts >= maxReconnectAttempts
    THEN OnError(w, "maxReconnect")
    ELSE LET n == w.rt.reconnectAttempts + 1
         IN [w EXCEPT !.rt.reconnectAttempts = n,
                      !.timers = Append(@, [attempt |-> n,
                                            delay |-> ReconnectDelay(n)])]

\* Mutant: the cap is tested with > instead of >=
ScheduleReconnectPastCap(w) ==
    IF w.rt.isClosing THEN w
    ELSE IF ~Truthy(account.wsUrl) THEN w
    ELSE IF w.rt.reconnectAttempts > maxReconnectAttempts
    THEN OnError(w, "maxReconnect")
    ELSE LET n == w.rt.reconnectAttempts + 1
         IN [w EXCEPT !.rt.reconnectAttempts = n,
                      !.timers = Append(@, [attempt |-> n,
                                            delay |-> ReconnectDelay(n)])]

\* scheduleReconnect()
ScheduleReconnect(w) ==
    IF w.rt.isClosing THEN w
    ELSE IF ~Truthy(account.wsUrl) THEN w
    ELSE IF w.rt.reconnectAttempts >= maxReconnectAttempts
    THEN OnError(w, "maxReconnect")
    ELSE LET n == w.rt.reconnectAttempts + 1
         IN [w EXCEPT !.rt.reconnectAttempts = n,
                      !.timers = Append(@, [attempt |-> n,
                                            delay |-> ReconnectDelay(n)])]

\* A socket slot no reference and no event can reach any more
FreeSlots(w) ==
    {i \in SockIds : w.socks[i].readyState = "CLOSED" /\ i # w.rt.ws /\ i # w.api.ws}

NewSocket(w) == CHOOSE i \in FreeSlots(w) : \A j \in FreeSlots(w) : i <= j

\* start(), from the socket part on (the code after the login verification):
\* new WebSocket + setupWebSocketHandlers, or the throw and its catch
Connect(w) ==
    LET done == [w EXCEPT !.rt.awaiting = FALSE, !.rt.phase = "running"]
    IN IF Truthy(account.wsUrl)
       THEN IF ValidWsUrl(account.wsUrl)
            THEN [done EXCEPT !.rt.ws = NewSocket(w),
                              !.socks[NewSocket(w)] =
                                  [readyState |-> "CONNECTING", attached |-> TRUE]]
            ELSE ScheduleReconnect(OnError(done, "start"))
       ELSE IF ~Truthy(account.httpUrl)
            THEN ScheduleReconnect(OnError(done, "config"))
            ELSE done

LastCall(a) == a.calls[Len(a.calls)]

\* start(), from its first line: the login verification over the client when
\* account.httpUrl is set; start() is suspended while that call is in flight
StartBody(w, now) ==
    IF Truthy(account.httpUrl)
    THEN LET w1 == Invoke(w, "start", GetLoginInfo, now)
         IN IF LastCall(w1.api).outcomes = <<>>
            THEN [w1 EXCEPT !.rt.awaiting = TRUE]
            ELSE Connect(w1)
    ELSE Connect(w)

\* The call a suspended start() awaits has settled: start() goes on
AwaitedSettled(w) ==
    /\ w.rt.awaiting
    /\ \E i \in DOMAIN w.api.calls :
          /\ w.api.calls[i].caller = "start"
          /\ \A j \in DOMAIN w.api.calls : w.api.calls[j].caller = "start" => j <= i
          /\ w.api.calls[i].outcomes # <<>>

AfterSettle(w) == IF AwaitedSettled(w) THEN Connect(w) ELSE w

\* Mutant: this.ws.close() without the test of this.ws, a TypeError when it is null
StopRuntimeUnguarded(w) ==
    IF w.rt.ws = NULL
    THEN [w EXCEPT !.rt.isClosing = TRUE, !.out.thrown = TRUE]
    ELSE [w EXCEPT !.socks[w.rt.ws].readyState =
                       IF @ \in {"CONNECTING", "OPEN"} THEN "CLOSING" ELSE @,
                   !.rt.ws = NULL, !.rt.isClosing = TRUE, !.rt.reconnectAttempts = 0]

\* stop()
StopRuntime(w) ==
    LET closed == IF w.rt.ws # NULL
                  THEN [w EXCEPT !.socks[w.rt.ws].readyState =
                                     IF @ \in {"CONNECTING", "OPEN"} THEN "CLOSING" ELSE @,
                                 !.rt.ws = NULL]
                  ELSE w
    IN [closed EXCEPT !.rt.isClosing = TRUE, !.rt.reconnectAttempts = 0]

\* Mutant: reconnect() starts again without detaching the socket it holds
ReconnectKeepsHandlers(w, now) == StartBody(w, now)

\* reconnect()
Reconnect(w, now) ==
    LET dropped == IF w.rt.ws # NULL
                   THEN [w EXCEPT !.socks[w.rt.ws] =
                                      [readyState |-> "CLOSED", attached |-> FALSE],
                                  !.rt.ws = NULL]
                   ELSE w
    IN StartBody(dropped, now)

\* Mutant: the open handler leaves the counter as it is
OnOpenKeepsCounter(w, now) ==
    LET w1 == [w EXCEPT !.api = SetWs(@, w.rt.ws)]
    IN IF ~Truthy(account.httpUrl)
       THEN AfterSettle(Invoke(w1, "open", GetLoginInfo, now))
       ELSE w1

\* ws.on('open')
OnOpen(w, now) ==
    LET w1 == [w EXCEPT !.rt.reconnectAttempts = 0, !.api = SetWs(@, w.rt.ws)]
    IN IF ~Truthy(account.httpUrl)
       THEN AfterSettle(Invoke(w1, "open", GetLoginInfo, now))
       ELSE w1

\* Mutant: the close handler leaves the socket in the client
OnCloseKeepsWs(w) ==
    IF ~w.rt.isClosing THEN ScheduleReconnect(w) ELSE w

\* ws.on('close')
OnClose(w) ==
    LET w1 == [w EXCEPT !.api = SetWs(@, NULL)]
    IN IF ~w1.rt.isClosing THEN ScheduleReconnect(w1) ELSE w1

\* Mutant: the event category is tested before the echo
HandlePayloadByCategory(w, payload) ==
    IF payload.post_type = "message"
    THEN [w EXCEPT !.out.forwarded = @ + 1]
    ELSE IF EchoTruthy(payload.echo)
    THEN AfterSettle([w EXCEPT !.api = HandleWsResponse(@, payload),
                              !.out.heard =
                                  {Heard(l.call, "ws", payload) :
                                     l \in {x \in w.api.responseEmitter :
                                               x.echo = payload.echo}}])
    ELSE w

\* handlePayload(payload)
HandlePayload(w, payload) ==
    IF EchoTruthy(payload.echo)
    THEN AfterSettle([w EXCEPT !.api = HandleWsResponse(@, payload),
                              !.out.heard =
                                  {Heard(l.call, "ws", payload) :
                                     l \in {x \in w.api.responseEmitter :
                                               x.echo = payload.echo}}])
    ELSE IF payload.post_type = "message"
    THEN [w EXCEPT !.out.forwarded = @ + 1]
    ELSE w

\* Mutant: a frame that does not parse is treated as the end of the connection
OnMessageParseFatal(w, frame) ==
    IF frame.kind = "garbage" THEN OnClose(w) ELSE HandlePayload(w, frame)

\* ws.on('message'): JSON.parse, then handlePayload; a throw is logged
OnMessage(w, frame) ==
    IF frame.kind = "garbage" THEN w ELSE HandlePayload(w, frame)

(***************************************************************************)
(* The state machine                                                       *)
(***************************************************************************)
\* The handler's result becomes the state. Once an action call has been issued the
\* model follows the session through MaxRetries consecutive reconnect attempts
Set(w) ==
    /\ w.rt.reconnectAttempts <= MaxRetries \/ w.api.calls = <<>>
    /\ rt' = w.rt
    /\ socks' = w.socks
    /\ timers' = w.timers
    /\ api' = w.api
    /\ out' = w.out
    /\ UNCHANGED <<account, chanvars>>

\* The step being taken; streak is 2 when the step before it was the same one
Did(op, sock, echo) ==
    [op |-> op, sock |-> sock, echo |-> echo,
     streak |-> IF last.op = op /\ last.sock = sock /\ last.echo = echo THEN 2 ELSE 1]

\* The values Date.now() takes: two calls can fall in the same millisecond or not
Now == {0, 1}

\* Echo values an inbound frame can carry: every token the client can make, a
\* token it never makes, the empty string, and no echo at all
Tokens == {MakeEcho(t, q) : t \in Now, q \in 0..(MaxCalls - 1)} \cup {<<"other">>}

\* status and retcode of a frame: ok, failed with a code, failed with code 0
Results == {<<"ok", 0>>, <<"failed", 1>>, <<"failed", 0>>}

\* The outcomes of a fetch: rejected, not 2xx, and 2xx with each body
HttpResponses ==
    {HttpResponse("rejected", <<"ok", 0>>), HttpResponse("non2xx", <<"ok", 0>>)}
    \cup {HttpResponse("2xx", r) : r \in Results}

Frame(kind, echo, post_type, result) ==
    [kind |-> kind, echo |-> echo, post_type |-> post_type,
     status |-> result[1], retcode |-> result[2]]

Frames ==
    {Frame("json", e, "none", r) : e \in Tokens, r \in Results}
    \cup {Frame("json", e, "message", <<"ok", 0>>) : e \in Tokens}
    \cup {Frame("json", e, p, <<"ok", 0>>) :
             e \in {EmptyEcho, NoEcho}, p \in {"message", "meta_event", "none"}}
    \cup {Frame("garbage", NoEcho, "none", <<"ok", 0>>)}

\* No channel activity: the module-level state of channel.ts as loaded
NoAdmins == [has |-> FALSE, items |-> <<>>]
Quiet == [op |-> "none"]

ChannelLoaded ==
    /\ recentReplies = {}
    /\ dispatched = {}
    /\ sending = EmptyBag
    /\ clock = 0
    /\ emitted = Quiet

Init ==
    /\ adminUins = NoAdmins
    /\ ChannelLoaded
    /\ account \in Accounts
    /\ rt = [ws |-> NULL, reconnectAttempts |-> 0, isClosing |-> FALSE,
             awaiting |-> FALSE, phase |-> "new"]
    /\ socks = [i \in SockIds |-> [readyState |-> "CLOSED", attached |-> FALSE]]
    /\ timers = <<>>
    /\ api = NewClient(account)
    /\ out = Silent
    /\ last = [op |-> "init", sock |-> NULL, echo |-> NoEcho, streak |-> 1]

\* Date.now() does not run backwards: no earlier than the time in the latest token
NotBefore(now) ==
    \A i \in DOMAIN api.calls : api.calls[i].echo # NoEcho => api.calls[i].echo[2] <= now

\* A handler that issues an action call runs only while the model has calls left
CallsLeft == Len(api.calls) < MaxCalls

\* gateway.startAccount: runtime.start() on the new session
StartCall(now) ==
    /\ rt.phase = "new"
    /\ Truthy(account.httpUrl) => CallsLeft
    /\ Set(StartBody([Cur EXCEPT !.rt.phase = "starting"], now))
    /\ last' = Did("start", NULL, NoEcho)

\* runtime.stop(), reachable through the stop function startAccount returns once
\* start() has returned; the session's holder may call it again
Stop ==
    /\ rt.phase = "running"
    /\ Set(StopRuntime(Cur))
    /\ last' = Did("stop", NULL, NoEcho)

\* A wrapper of the client called by the host or the reply pipeline
ExtCall(inv, now) ==
    /\ CallsLeft
    /\ NotBefore(now)
    /\ Set(Invoke(Cur, "ext", inv, now))
    /\ last' = Did("call", api.ws, LastCall(api').echo)

\* The response (or failure) of an HTTP POST in flight
HttpRespond(i, response) ==
    /\ i \in DOMAIN api.calls
    /\ api.calls[i].transport = "http"
    /\ api.calls[i].outcomes = <<>>
    /\ Set(AfterSettle([Cur EXCEPT !.api.calls[i].outcomes = <<HttpOutcome(response)>>,
                                   !.out.heard = {Heard(i, response.http, response)}]))
    /\ last' = Did("http", NULL, NoEcho)

\* The 10 s timer of a socket request fires
ReqTimeout(i) ==
    /\ i \in api.timeouts
    /\ Set(AfterSettle([Cur EXCEPT !.api = TimeoutFires(@, i)]))
    /\ last' = Did("timeout", NULL, api.calls[i].echo)

\* The socket's handshake succeeds: 'open'
SockOpen(s, now) ==
    /\ socks[s].attached
    /\ socks[s].readyState = "CONNECTING"
    /\ ~Truthy(account.httpUrl) => CallsLeft
    /\ NotBefore(now)
    /\ Set(OnOpen([Cur EXCEPT !.socks[s].readyState = "OPEN"], now))
    /\ last' = Did("open", s, NoEcho)

\* A frame arrives: 'message'. A token no call has carried yet is covered by the
\* token the client never makes
SockMessage(s, frame) ==
    /\ socks[s].attached
    /\ socks[s].readyState \in {"OPEN", "CLOSING"}
    /\ frame.echo \in Tokens \ {<<"other">>} =>
          \E i \in DOMAIN api.calls : api.calls[i].echo = frame.echo
    /\ Set(OnMessage(Cur, frame))
    /\ last' = Did(IF frame.kind = "garbage" THEN "garbage" ELSE "frame", s, frame.echo)

\* 'error': handed to config.onError
SockError(s) ==
    /\ socks[s].attached
    /\ socks[s].readyState # "CLOSED"
    /\ Set(OnError(Cur, "ws"))
    /\ last' = Did("error", s, NoEcho)

\* The connection ends (failed handshake, peer close, or the end of a close()): 'close'
SockClose(s) ==
    /\ socks[s].attached
    /\ socks[s].readyState # "CLOSED"
    /\ Set(OnClose([Cur EXCEPT !.socks[s].readyState = "CLOSED"]))
    /\ last' = Did("close", s, NoEcho)

\* The setTimeout callback of scheduleReconnect
TimerFires(k, now) ==
    /\ k \in DOMAIN timers
    /\ (Truthy(account.httpUrl) /\ ~rt.isClosing) => CallsLeft
    /\ LET w == [Cur EXCEPT !.timers = SubSeq(@, 1, k - 1) \o SubSeq(@, k + 1, Len(@))]
       IN Set(IF ~w.rt.isClosing THEN Reconnect(w, now) ELSE w)
    /\ last' = Did("timer", NULL, NoEcho)

Next ==
    \/ \E now \in Now : StartCall(now)
    \/ Stop
    \/ \E inv \in Invocations, now \in Now : ExtCall(inv, now)
    \/ \E i \in 1..MaxCalls, response \in HttpResponses : HttpRespond(i, response)
    \/ \E i \in 1..MaxCalls : ReqTimeout(i)
    \/ \E s \in SockIds, now \in Now : SockOpen(s, now)
    \/ \E s \in SockIds, frame \in Frames : SockMessage(s, frame)
    \/ \E s \in SockIds : SockError(s)
    \/ \E s \in SockIds : SockClose(s)
    \/ \E k \in 1..(maxReconnectAttempts + 1), now \in Now : TimerFires(k, now)

Spec == Init /\ [][Next]_vars

\* The timers of the event loop fire: a 10 s request timer that is armed does not
\* stay armed for ever
TimersFire == \A i \in 1..MaxCalls : WF_vars(ReqTimeout(i))

\* The session of an account with a socket URL only, whose calls all go over the
\* socket: every call in one millisecond, responses with each result
LiveInit ==
    /\ Init
    /\ account = [wsUrl |-> <<"ws://h">>, httpUrl |-> <<>>]

LiveFrames == {f \in Frames : f.kind = "json" /\ f.echo \in Tokens /\ f.post_type = "none"}

LiveNext ==
    \/ StartCall(0)
    \/ Stop
    \/ ExtCall(GetLoginInfo, 0)
    \/ \E i \in 1..MaxCalls : ReqTimeout(i)
    \/ \E s \in SockIds : SockOpen(s, 0)
    \/ \E s \in SockIds, frame \in LiveFrames : SockMessage(s, frame)
    \/ \E s \in SockIds : SockError(s)
    \/ \E s \in SockIds : SockClose(s)
    \/ \E k \in 1..(maxReconnectAttempts + 1) : TimerFires(k, 0)

LiveSpec == LiveInit /\ [][LiveNext]_vars /\ TimersFire

(***************************************************************************)
(* Two accounts started in one process (channel.ts startAccount): each has *)
(* its own NapCatRuntime, and its client comes from the apiClients map.    *)
(* Here rt, socks and timers hold one value per account and api is the map *)
(* of clients; both accounts are configured with a socket URL only.        *)
(***************************************************************************)
PairAccounts == {"default", "second"}

\* Mutant: the map of clients has one entry that every account gets
ClientKeyShared(accountId) == "default"

\* getOrCreateApiClient(accountId, config): the entry of apiClients an account's
\* session and callers get
ClientKey(accountId) == accountId

\* The session of an account as its handlers see it
CurOf(a) ==
    [rt |-> rt[a], socks |-> socks[a], timers |-> timers[a], api |-> api[ClientKey(a)],
     out |-> Silent]

\* The result of a handler of account a becomes the state of its session and of
\* the client it holds; the model follows a session past MaxRetries consecutive
\* attempts only while it has issued no call
SetOf(a, w) ==
    /\ w.rt.reconnectAttempts <= MaxRetries \/ w.api.calls = <<>>
    /\ rt' = [rt EXCEPT ![a] = w.rt]
    /\ socks' = [socks EXCEPT ![a] = w.socks]
    /\ timers' = [timers EXCEPT ![a] = w.timers]
    /\ api' = [api EXCEPT ![ClientKey(a)] = w.api]
    /\ out' = w.out
    /\ UNCHANGED <<account, chanvars>>

\* The step being taken and the account whose session takes it
PairDid(a, op) == [op |-> op, sock |-> NULL, echo |-> NoEcho, streak |-> 1, by |-> a]

PairInit ==
    /\ adminUins = NoAdmins
    /\ ChannelLoaded
    /\ account = [wsUrl |-> <<"ws://h">>, httpUrl |-> <<>>]
    /\ rt = [a \in PairAccounts |->
               [ws |-> NULL, reconnectAttempts |-> 0, isClosing |-> FALSE,
                awaiting |-> FALSE, phase |-> "new"]]
    /\ socks = [a \in PairAccounts |->
                  [i \in SockIds |-> [readyState |-> "CLOSED", attached |-> FALSE]]]
    /\ timers = [a \in PairAccounts |-> <<>>]
    /\ api = [a \in PairAccounts |-> NewClient(account)]
    /\ out = Silent
    /\ last = PairDid("none", "init")

\* Each session issues one call in a run of the pair: the login call of its first open
PairCallsLeft(a) == api[ClientKey(a)].calls = <<>>

\* gateway.startAccount for account a
PairStart(a) ==
    /\ rt[a].phase = "new"
    /\ SetOf(a, StartBody([CurOf(a) EXCEPT !.rt.phase = "starting"], 0))
    /\ last' = PairDid(a, "start")

\* The stop function of account a
PairStop(a) ==
    /\ rt[a].phase = "running"
    /\ SetOf(a, StopRuntime(CurOf(a)))
    /\ last' = PairDid(a, "stop")

\* 'open' on a socket of account a; both sessions open in the same millisecond
PairOpen(a, s) ==
    /\ socks[a][s].attached
    /\ socks[a][s].readyState = "CONNECTING"
    /\ PairCallsLeft(a)
    /\ SetOf(a, OnOpen([CurOf(a) EXCEPT !.socks[s].readyState = "OPEN"], 0))
    /\ last' = PairDid(a, "open")

\* 'message' on a socket of account a: a frame whose token some client has issued,
\* or a frame without token
PairMessage(a, s, frame) ==
    /\ socks[a][s].attached
    /\ socks[a][s].readyState \in {"OPEN", "CLOSING"}
    /\ frame.echo \in Tokens =>
          \E b \in PairAccounts : \E i \in DOMAIN api[b].calls :
             api[b].calls[i].echo = frame.echo
    /\ SetOf(a, OnMessage(CurOf(a), frame))
    /\ last' = PairDid(a, IF frame.kind = "garbage" THEN "garbage" ELSE "frame")

\* 'error' on a socket of account a
PairError(a, s) ==
    /\ socks[a][s].attached
    /\ socks[a][s].readyState # "CLOSED"
    /\ SetOf(a, OnError(CurOf(a), "ws"))
    /\ last' = PairDid(a, "error")

\* 'close' on a socket of account a
PairClose(a, s) ==
    /\ socks[a][s].attached
    /\ socks[a][s].readyState # "CLOSED"
    /\ SetOf(a, OnClose([CurOf(a) EXCEPT !.socks[s].readyState = "CLOSED"]))
    /\ last' = PairDid(a, "close")

\* A reconnect timer of account a fires
PairTimerFires(a, k) ==
    /\ k \in DOMAIN timers[a]
    /\ LET w == [CurOf(a) EXCEPT
                    !.timers = SubSeq(@, 1, k - 1) \o SubSeq(@, k + 1, Len(@))]
       IN SetOf(a, IF ~w.rt.isClosing THEN Reconnect(w, 0) ELSE w)
    /\ last' = PairDid(a, "timer")

\* The 10 s timer of a socket request of account a's client fires
PairReqTimeout(a, i) ==
    /\ i \in api[ClientKey(a)].timeouts
    /\ SetOf(a, AfterSettle([CurOf(a) EXCEPT !.api = TimeoutFires(@, i)]))
    /\ last' = PairDid(a, "timeout")

PairNext ==
    \E a \in PairAccounts :
       \/ PairStart(a)
       \/ PairStop(a)
       \/ \E s \in SockIds : PairOpen(a, s)
       \/ \E s \in SockIds, frame \in Frames : PairMessage(a, s, frame)
       \/ \E s \in SockIds : PairError(a, s)
       \/ \E s \in SockIds : PairClose(a, s)
       \/ \E k \in 1..(maxReconnectAttempts + 1) : PairTimerFires(a, k)
       \/ \E i \in 1..MaxCalls : PairReqTimeout(a, i)

PairSpec == PairInit /\ [][PairNext]_vars

(***************************************************************************)
(* The registries of channel.ts: activeRuntimes and apiClients, both keyed *)
(* by account id. rt[a] is the runtime last created for account a and      *)
(* api[a] the client last created for it, each with the flag `registered`  *)
(* that says whether the map has the entry. cfg.accounts names the two     *)
(* accounts of PairAccounts, both with the configuration `account`.        *)
(***************************************************************************)
ActiveRuntimes == {a \in PairAccounts : rt[a].registered}
ApiClients == {a \in PairAccounts : api[a].registered}

\* Mutant: startAccount without the test of activeRuntimes
AlreadyRunningNever(a) == FALSE

\* activeRuntimes.has(accountId)
AlreadyRunning(a) == a \in ActiveRuntimes

\* new NapCatRuntime(...)
NewRuntime ==
    [ws |-> NULL, reconnectAttempts |-> 0, isClosing |-> FALSE,
     awaiting |-> FALSE, phase |-> "new", registered |-> FALSE]

RegistryInit ==
    /\ adminUins = NoAdmins
    /\ ChannelLoaded
    /\ account \in {[wsUrl |-> <<"ws://h">>, httpUrl |-> <<>>],
                    [wsUrl |-> <<>>, httpUrl |-> <<>>]}
    /\ rt = [a \in PairAccounts |-> NewRuntime]
    /\ socks = [a \in PairAccounts |->
                  [i \in SockIds |-> [readyState |-> "CLOSED", attached |-> FALSE]]]
    /\ timers = [a \in PairAccounts |-> <<>>]
    /\ api = [a \in PairAccounts |-> NewClient(account) @@ [registered |-> FALSE]]
    /\ out = Silent
    /\ last = PairDid("none", "init")

\* gateway.startAccount({accountId: a}): null when the account is registered, a
\* throw when it is not configured; else the client is fetched or created, a new
\* runtime is registered and started, and the stop function is returned. With no
\* HTTP endpoint start() does not suspend. The runtime the account had before, its
\* sockets and its timers are out of reach of the new one
StartAccount(a) ==
    /\ last' = PairDid(a, "startAccount")
    /\ UNCHANGED <<account, adminUins, recentReplies, dispatched, sending, clock>>
    /\ IF a \in PairAccounts /\ AlreadyRunning(a)
       THEN /\ emitted' = [op |-> "startAccount", id |-> a, returned |-> "null"]
            /\ out' = Silent
            /\ UNCHANGED <<rt, socks, timers, api>>
       ELSE IF a \notin PairAccounts
       THEN /\ emitted' = [op |-> "startAccount", id |-> a, returned |-> "throw"]
            /\ out' = Silent
            /\ UNCHANGED <<rt, socks, timers, api>>
       ELSE LET client == IF api[a].registered THEN api[a]
                          ELSE NewClient(account) @@ [registered |-> TRUE]
                fresh == [rt |-> [NewRuntime EXCEPT !.registered = TRUE,
                                                    !.phase = "starting"],
                          socks |-> [i \in SockIds |->
                                       [readyState |-> "CLOSED", attached |-> FALSE]],
                          timers |-> <<>>, api |-> client, out |-> Silent]
            IN /\ emitted' = [op |-> "startAccount", id |-> a, returned |-> "stop"]
               /\ rt' = [rt EXCEPT ![a] = StartBody(fresh, 0).rt]
               /\ socks' = [socks EXCEPT ![a] = StartBody(fresh, 0).socks]
               /\ timers' = [timers EXCEPT ![a] = StartBody(fresh, 0).timers]
               /\ api' = [api EXCEPT ![a] = StartBody(fresh, 0).api]
               /\ out' = StartBody(fresh, 0).out

\* A stop function startAccount returned for account a is run, for the first
\* time or again: it stops the runtime registered for a, if any, and deletes the
\* entries of a from both maps
StopFunction(a) ==
    /\ rt[a].phase # "new"
    /\ last' = PairDid(a, "stopFn")
    /\ emitted' = [op |-> "stopFn", id |-> a, found |-> AlreadyRunning(a)]
    /\ UNCHANGED <<account, adminUins, recentReplies, dispatched, sending, clock>>
    /\ IF a \in ActiveRuntimes
       THEN /\ rt' = [rt EXCEPT ![a] = [StopRuntime(CurOf(a)).rt EXCEPT
                                           !.registered = FALSE]]
            /\ socks' = [socks EXCEPT ![a] = StopRuntime(CurOf(a)).socks]
            /\ api' = [api EXCEPT ![a].registered = FALSE]
            /\ out' = StopRuntime(CurOf(a)).out
            /\ UNCHANGED timers
       ELSE /\ out' = Silent
            /\ UNCHANGED <<rt, socks, timers, api>>

\* The frames the sessions receive here: the answer to a call, a message event and
\* a frame that does not parse
RegistryFrames ==
    {f \in Frames : \/ f.echo \in Tokens /\ f.post_type = "none" /\ f.status = "ok"
                    \/ f.echo = NoEcho /\ f.post_type = "message"
                    \/ f.kind = "garbage"}

RegistryNext ==
    \/ \E a \in PairAccounts \cup {"unknown"} : StartAccount(a)
    \/ \E a \in PairAccounts :
          \/ StopFunction(a)
          \/ \E s \in SockIds : PairOpen(a, s)
          \/ \E s \in SockIds, frame \in RegistryFrames : PairMessage(a, s, frame)
          \/ \E s \in SockIds : PairError(a, s)
          \/ \E s \in SockIds : PairClose(a, s)
          \/ \E k \in 1..(maxReconnectAttempts + 1) : PairTimerFires(a, k)
          \/ \E i \in 1..MaxCalls : PairReqTimeout(a, i)

RegistrySpec == RegistryInit /\ [][RegistryNext]_vars

(***************************************************************************)
(* Channel plugin (channel.ts): the onMessage handler of an account and    *)
(* the deliver callback it gives the host's reply dispatcher               *)
(***************************************************************************)
\* String(n) for the identities the model uses
Str(n) ==
    CASE n = 1 -> <<"1">> [] n = 2 -> <<"2">> [] n = 3 -> <<"3">> [] OTHER -> <<"7">>

SelfId == 1
UserIds == {1, 2}
GroupId == 7
MessageIds == {1, 2}

\* `[CQ:at,qq=${self_id}]`
MentionMarker(self) == <<"[CQ:at,qq=">> \o Str(self) \o <<"]">>

\* s.includes(sub), both sequences of pieces
Includes(s, sub) ==
    \E i \in 1..(Len(s) - Len(sub) + 1) : SubSeq(s, i, i + Len(sub) - 1) = sub

IsSpace(c) == c \in {" ", "\n"}

RECURSIVE TrimStart(_)
TrimStart(s) == IF s # <<>> /\ IsSpace(Head(s)) THEN TrimStart(Tail(s)) ELSE s

RECURSIVE TrimEnd(_)
TrimEnd(s) ==
    IF s # <<>> /\ IsSpace(s[Len(s)]) THEN TrimEnd(SubSeq(s, 1, Len(s) - 1)) ELSE s

\* s.trim()
Trim(s) == TrimEnd(TrimStart(s))

\* Message segments {type, data}; data.qq is a number or a string, kept with its
\* JavaScript type and its String() value
Seg(type, text, qq, url, file) ==
    [type |-> type, text |-> text, qq |-> qq, url |-> url, file |-> file]

NoQQ == [t |-> "undefined", v |-> <<"undefined">>]
NumQQ(n) == [t |-> "number", v |-> Str(n)]
StrQQ(str) == [t |-> "string", v |-> str]
TextSeg(text) == Seg("text", text, NoQQ, <<>>, <<>>)
AtSeg(qq) == Seg("at", <<>>, qq, <<>>, <<>>)
ImageSeg(url, file) == Seg("image", <<>>, NoQQ, url, file)
FaceSeg == Seg("face", <<>>, NoQQ, <<>>, <<>>)

\* message.message as an array of segments, or as a string
ArrayBody(segs) == [form |-> "array", segs |-> segs, str |-> <<>>]
StringBody(str) == [form |-> "string", segs |-> <<>>, str |-> str]

Url1 == <<"http://img/1">>
Url2 == <<"http://img/2">>
File1 == <<"a.image">>

Bodies ==
    {ArrayBody(segs) : segs \in
        {<<>>,
         <<TextSeg(<<"hi">>)>>,
         <<TextSeg(<<" ">>)>>,
         <<TextSeg(<<"hello", " ">>), AtSeg(NumQQ(SelfId)), TextSeg(<<" ", "world">>)>>,
         <<AtSeg(StrQQ(Str(SelfId))), TextSeg(<<"hi">>)>>,
         <<AtSeg(NumQQ(SelfId)), TextSeg(<<" ", "hi", " ">>)>>,
         <<AtSeg(NumQQ(2)), TextSeg(<<"hi">>)>>,
         <<AtSeg(StrQQ(<<"all">>)), TextSeg(<<"hi">>)>>,
         <<AtSeg(NumQQ(SelfId))>>,
         <<TextSeg(MentionMarker(SelfId) \o <<"hi">>)>>,
         <<ImageSeg(Url1, File1)>>,
         <<ImageSeg(<<>>, File1)>>,
         <<ImageSeg(<<>>, <<>>), ImageSeg(Url2, File1)>>,
         <<AtSeg(NumQQ(SelfId)), ImageSeg(Url1, File1), ImageSeg(Url2, File1)>>,
         <<TextSeg(<<"hi">>), ImageSeg(Url1, File1)>>,
         <<FaceSeg>>}}
    \cup {StringBody(str) : str \in
        {<<>>, <<" ">>, <<"hi">>, <<" ", "hi", " ">>,
         MentionMarker(SelfId) \o <<"hi">>,
         MentionMarker(SelfId),
         MentionMarker(2) \o <<"hi">>}}

\* OB11MessageEvent, the fields onMessage reads
Events ==
    [message_type : {"private", "group"}, user_id : UserIds, group_id : {GroupId},
     self_id : {SelfId}, message_id : MessageIds, message : Bodies]

AdminLists ==
    {NoAdmins} \cup {[has |-> TRUE, items |-> l] : l \in {<<>>, <<1>>, <<2, 3>>}}

\* Mutant: the admin check is made only for group messages
AdminAllowedInDirect(admins, m) ==
    IF admins.has /\ Len(admins.items) > 0 /\ m.message_type = "group"
    THEN \E i \in DOMAIN admins.items : admins.items[i] = m.user_id
    ELSE TRUE

\* The admin check of onMessage: adminUins.includes(message.user_id)
AdminAllowed(admins, m) ==
    IF admins.has /\ Len(admins.items) > 0
    THEN \E i \in DOMAIN admins.items : admins.items[i] = m.user_id
    ELSE TRUE

\* Mutant: any mention segment counts, whoever it targets
IsMentionedByAnyone(m) ==
    IF m.message.form = "array"
    THEN \E i \in DOMAIN m.message.segs : m.message.segs[i].type = "at"
    ELSE Includes(m.message.str, MentionMarker(m.self_id))

\* isMentioned of onMessage
IsMentioned(m) ==
    IF m.message.form = "array"
    THEN \E i \in DOMAIN m.message.segs :
            /\ m.message.segs[i].type = "at"
            /\ m.message.segs[i].qq.v = Str(m.self_id)
    ELSE Includes(m.message.str, MentionMarker(m.self_id))

\* The mention check of onMessage: group messages must mention the bot
Addressed(m) == m.message_type = "group" => IsMentioned(m)

\* Mutant: a mention segment contributes the id it names
RECURSIVE JoinTextWithMentions(_)
JoinTextWithMentions(segs) ==
    IF segs = <<>> THEN <<>>
    ELSE (IF Head(segs).type = "text" THEN Head(segs).text
          ELSE IF Head(segs).type = "at" THEN <<"@">> \o Head(segs).qq.v
          ELSE <<>>) \o JoinTextWithMentions(Tail(segs))

RECURSIVE JoinText(_)
\* .filter(seg => seg.type === 'text').map(seg => seg.data.text).join('')
JoinText(segs) ==
    IF segs = <<>> THEN <<>>
    ELSE (IF Head(segs).type = "text" THEN Head(segs).text ELSE <<>>) \o JoinText(Tail(segs))

\* message.message.find(seg => seg.type === 'image'): its index, 0 when none
FirstImage(segs) ==
    IF \E i \in DOMAIN segs : segs[i].type = "image"
    THEN CHOOSE i \in DOMAIN segs :
            /\ segs[i].type = "image"
            /\ \A j \in 1..(i - 1) : segs[j].type # "image"
    ELSE 0

\* Mutant: the file reference is preferred to the url
MediaUrlFileFirst(m) ==
    IF m.message.form = "array" /\ FirstImage(m.message.segs) # 0
    THEN LET seg == m.message.segs[FirstImage(m.message.segs)]
         IN IF Truthy(seg.file) THEN seg.file ELSE seg.url
    ELSE <<>>

\* mediaUrl of onMessage: imageSeg.data.url || imageSeg.data.file; <<>> is undefined
MediaUrlOf(m) ==
    IF m.message.form = "array" /\ FirstImage(m.message.segs) # 0
    THEN LET seg == m.message.segs[FirstImage(m.message.segs)]
         IN IF Truthy(seg.url) THEN seg.url ELSE seg.file
    ELSE <<>>

\* messageText of onMessage, as it stands at the test `if (!messageText) return`
MessageText(m) ==
    LET raw == IF m.message.form = "string" THEN m.message.str
               ELSE JoinText(m.message.segs)
        trimmed == Trim(raw)
        media == MediaUrlOf(m)
        named == IF ~Truthy(trimmed) /\ Truthy(media) THEN <<"[Image]">> ELSE trimmed
    IN IF Truthy(media) THEN named \o <<"\n", "[MediaUrl: ">> \o media \o <<"]">> ELSE named

IsDirect(m) == m.message_type = "private"

\* channelId: `private:${user_id}` or `group:${group_id}`
ChannelId(m) ==
    IF IsDirect(m) THEN <<"private", ":">> \o Str(m.user_id)
    ELSE <<"group", ":">> \o Str(m.group_id)

\* messageKey of deliver: `${channelId}:${message.message_id}`
MessageKey(m) == ChannelId(m) \o <<":">> \o Str(m.message_id)

DEFAULT_ACCOUNT_ID == "default"

\* What the deliver closure of an account's onMessage keeps: the account it was
\* created for (accountId and its client) and the message
ClosureOf(accountId, m) ==
    [accountId |-> accountId, isDirect |-> IsDirect(m), user_id |-> m.user_id,
     group_id |-> m.group_id, message_id |-> m.message_id, channelId |-> ChannelId(m)]

Closure(m) == ClosureOf(DEFAULT_ACCOUNT_ID, m)

\* The context handed to dispatchReplyWithBufferedBlockDispatcher
CtxPayload(m) ==
    [RawBody |-> MessageText(m), MediaUrl |-> MediaUrlOf(m),
     To |-> <<"napcat-channel", ":">> \o ChannelId(m),
     ChatType |-> IF IsDirect(m) THEN "direct" ELSE "channel",
     SenderId |-> Str(m.user_id), MessageSid |-> Str(m.message_id)]

\* onMessage(message): "admin", "mention" or "empty" when it returns early,
\* "dispatch" when it reaches the dispatcher
OnMessageVerdict(admins, m) ==
    IF ~AdminAllowed(admins, m) THEN "admin"
    ELSE IF ~Addressed(m) THEN "mention"
    ELSE IF ~Truthy(MessageText(m)) THEN "empty"
    ELSE "dispatch"

\* Media references of a reply: a local absolute path, a remote URL, a file://
\* URL, a relative path
LocalPath == <<"/", "tmp", "/", "a.png">>
RemoteUrl == <<"http://", "h", "/", "a.png">>
FileUrl == <<"file://", "/", "tmp", "/", "a.png">>
RelativePath == <<"a.png">>
MediaRefs == {LocalPath, RemoteUrl, FileUrl, RelativePath}

\* What the file system holds at a path: a readable file, something whose read
\* fails (a directory, no permission), or nothing
FileStates == {"readable", "unreadable", "missing"}
FileSystems == [{LocalPath} -> FileStates]

\* s.startsWith(prefix), the prefix being a first piece
StartsWith(s, prefix) == Len(s) > 0 /\ s[1] = prefix

\* fs.existsSync(path)
ExistsSync(fs, path) == path \in DOMAIN fs /\ fs[path] # "missing"

\* fs.readFileSync(path).toString('base64'); the read throws on "unreadable"
Base64Of(path) == <<"base64 of the bytes at ">> \o path

\* Mutant: a path that does not exist is passed on as it is
ResolveMediaExistingOnly(fileData, fs) ==
    IF StartsWith(fileData, "/") /\ ExistsSync(fs, fileData)
    THEN IF fs[fileData] = "readable"
         THEN <<"base64://">> \o Base64Of(fileData)
         ELSE IF ~StartsWith(fileData, "file://")
              THEN <<"file://">> \o fileData
              ELSE fileData
    ELSE fileData

\* The media resolution of deliver (and of outbound.sendMedia): fileData for one item
ResolveMedia(fileData, fs) ==
    IF StartsWith(fileData, "/") /\ ExistsSync(fs, fileData)
    THEN IF fs[fileData] = "readable"
         THEN <<"base64://">> \o Base64Of(fileData)
         ELSE IF ~StartsWith(fileData, "file://")
              THEN <<"file://">> \o fileData
              ELSE fileData
    ELSE IF StartsWith(fileData, "/") /\ ~StartsWith(fileData, "file://")
    THEN <<"file://">> \o fileData
    ELSE fileData

\* A reply payload of the dispatcher: text, and media under one of four names
Absent == [has |-> FALSE, items |-> <<>>]
Items(l) == [has |-> TRUE, items |-> l]
Payload(text, media, files, mediaUrls, mediaUrl) ==
    [text |-> text, media |-> media, files |-> files, mediaUrls |-> mediaUrls,
     mediaUrl |-> mediaUrl]

ReplyTexts == {<<>>, <<"a">>, <<"b">>}

Payloads ==
    {Payload(t, Absent, Absent, Absent, <<>>) : t \in ReplyTexts}
    \cup {Payload(<<>>, Items(<<r>>), Absent, Absent, <<>>) : r \in MediaRefs}
    \cup {Payload(<<"a">>, Items(<<>>), Items(<<RemoteUrl>>), Absent, RemoteUrl),
          Payload(<<"a">>, Absent, Items(<<RemoteUrl>>), Absent, <<>>),
          Payload(<<"a">>, Absent, Absent, Items(<<LocalPath, RemoteUrl>>), <<>>),
          Payload(<<>>, Absent, Absent, Absent, FileUrl)}

\* replyMedia of deliver
ReplyMedia(payload) ==
    IF payload.media.has THEN payload.media.items
    ELSE IF payload.files.has THEN payload.files.items
    ELSE IF payload.mediaUrls.has THEN payload.mediaUrls.items
    ELSE IF Truthy(payload.mediaUrl) THEN <<payload.mediaUrl>>
    ELSE <<>>

\* recentReplies.get(key): the entries under the key (none or one)
Get(replies, key) == {e \in replies : e.key = key}

\* Mutant: the entry is added and the earlier one of the key is kept
MapSetKeepsEarlier(replies, key, text, timestamp) ==
    replies \cup {[key |-> key, text |-> text, timestamp |-> timestamp]}

\* recentReplies.set(key, {text, timestamp})
MapSet(replies, key, text, timestamp) ==
    {e \in replies : e.key # key} \cup {[key |-> key, text |-> text, timestamp |-> timestamp]}

\* Mutant: the window test is <=
SuppressedInclusive(replies, key, replyText, replyMedia, now) ==
    /\ Len(replyMedia) = 0
    /\ \E e \in Get(replies, key) :
          /\ e.text = replyText
          /\ now - e.timestamp <= REPLY_DEDUP_WINDOW_MS

\* The dedup test of deliver
Suppressed(replies, key, replyText, replyMedia, now) ==
    /\ Len(replyMedia) = 0
    /\ \E e \in Get(replies, key) :
          /\ e.text = replyText
          /\ now - e.timestamp < REPLY_DEDUP_WINDOW_MS

\* messageBody of deliver: the text, or the segments when there is media
\* Mutant: the text segment is appended after the media segments
MessageBodyTextLast(replyText, replyMedia, fs) ==
    IF Len(replyMedia) = 0 THEN StringBody(replyText)
    ELSE ArrayBody([i \in DOMAIN replyMedia |->
                      Seg("image", <<>>, NoQQ, <<>>, ResolveMedia(replyMedia[i], fs))]
                   \o (IF Truthy(replyText) THEN <<TextSeg(replyText)>> ELSE <<>>))

MessageBody(replyText, replyMedia, fs) ==
    IF Len(replyMedia) = 0 THEN StringBody(replyText)
    ELSE ArrayBody((IF Truthy(replyText) THEN <<TextSeg(replyText)>> ELSE <<>>)
                   \o [i \in DOMAIN replyMedia |->
                         Seg("image", <<>>, NoQQ, <<>>, ResolveMedia(replyMedia[i], fs))])

\* The parameters deliver passes to client.sendMessage
SendParams(c, body) ==
    [message_type |-> IF c.isDirect THEN "private" ELSE "group",
     target |-> IF c.isDirect THEN "user_id" ELSE "group_id",
     id |-> IF c.isDirect THEN c.user_id ELSE c.group_id,
     message |-> body]

\* messageKey of a deliver closure
KeyOf(c) == c.channelId \o <<":">> \o Str(c.message_id)

\* deliver(payload) up to its await: "empty" or "suppressed" when it returns
\* without sending, "send" when it calls client.sendMessage
DeliverVerdict(replies, c, payload, now) ==
    IF ~Truthy(payload.text) /\ Len(ReplyMedia(payload)) = 0 THEN "empty"
    ELSE IF Suppressed(replies, KeyOf(c), payload.text, ReplyMedia(payload), now)
    THEN "suppressed"
    ELSE "send"

\* A session that does nothing: the channel specifications leave it alone
SessionAside ==
    /\ account = [wsUrl |-> <<"ws://h">>, httpUrl |-> <<"http://h">>]
    /\ rt = [ws |-> NULL, reconnectAttempts |-> 0, isClosing |-> FALSE,
             awaiting |-> FALSE, phase |-> "new"]
    /\ socks = [i \in SockIds |-> [readyState |-> "CLOSED", attached |-> FALSE]]
    /\ timers = <<>>
    /\ api = NewClient(account)
    /\ out = Silent
    /\ last = [op |-> "init", sock |-> NULL, echo |-> NoEcho, streak |-> 1]

sessionvars == <<account, rt, socks, timers, api, out, last>>

\* An account's onMessage handler is installed; nothing has arrived yet
InboundInit ==
    /\ SessionAside
    /\ adminUins \in AdminLists
    /\ ChannelLoaded

\* The session calls config.onMessage(message): the handler runs up to the call of
\* the dispatcher, or returns before it
OnMessageCall(m) ==
    /\ Cardinality(dispatched) < MaxDispatched
    /\ dispatched' = IF OnMessageVerdict(adminUins, m) = "dispatch"
                     THEN dispatched \cup {Closure(m)}
                     ELSE dispatched
    /\ emitted' = [op |-> "onMessage", message |-> m,
                   verdict |-> OnMessageVerdict(adminUins, m),
                   ctx |-> IF OnMessageVerdict(adminUins, m) = "dispatch"
                           THEN <<CtxPayload(m)>> ELSE <<>>]
    /\ UNCHANGED <<sessionvars, adminUins, recentReplies, sending, clock>>

InboundNext == \E m \in Events : OnMessageCall(m)

InboundSpec == InboundInit /\ [][InboundNext]_vars

\* The values Date.now() takes in deliver
Times == {0, 4999, 5000}

\* The closures of two dispatched messages: a direct one and a group one
DeliverClosures ==
    {Closure(m) : m \in {e \in Events : e.user_id = 1 /\ e.message_id = 1
                                         /\ e.message = StringBody(<<"hi">>)}}

\* The file systems that differ for a payload: all of them when it names the local
\* path, one otherwise (no other path is looked up)
FileSystemsFor(payload) ==
    IF \E i \in DOMAIN ReplyMedia(payload) : ReplyMedia(payload)[i] = LocalPath
    THEN FileSystems
    ELSE {[x \in {LocalPath} |-> "missing"]}

\* Messages have been dispatched; the dispatcher is about to call deliver
DeliverInit ==
    /\ SessionAside
    /\ adminUins = NoAdmins
    /\ recentReplies = {}
    /\ dispatched = DeliverClosures
    /\ sending = EmptyBag
    /\ clock = 0
    /\ emitted = Quiet

\* A deliver suspended at await client.sendMessage: the locals it resumes with
InFlight(by, key, text, now) == [by |-> by, key |-> key, text |-> text, now |-> now]

\* Mutant: only a reply without media is recorded
AfterSendTextOnly(replies, d, ok) ==
    IF ok /\ d.media = <<>> THEN MapSet(replies, d.key, d.text, d.now) ELSE replies

\* Mutant: the reply is recorded whether the send succeeded or not
AfterSendAlways(replies, d, ok) == MapSet(replies, d.key, d.text, d.now)

\* Mutant: a suppressed duplicate refreshes the timestamp of the record
AfterCheckRefreshes(replies, c, payload, now) ==
    IF DeliverVerdict(replies, c, payload, now) = "suppressed"
    THEN MapSet(replies, KeyOf(c), payload.text, now)
    ELSE replies

\* deliver up to its await: it reads the table and returns or goes on to send;
\* it writes nothing
AfterCheck(replies, c, payload, now) == replies

\* deliver after await client.sendMessage: the record is written when the promise
\* was fulfilled; a rejection leaves deliver by the throw
AfterSend(replies, d, ok) ==
    IF ok THEN MapSet(replies, d.key, d.text, d.now) ELSE replies

\* The replies the dispatcher hands to a closure: every payload for the direct
\* message of the default account, one text for the others (enough to tell the keys
\* and the accounts apart)
PayloadsFor(c) ==
    IF c.isDirect /\ c.accountId = DEFAULT_ACCOUNT_ID
    THEN Payloads
    ELSE {Payload(<<"a">>, Absent, Absent, Absent, <<>>)}

\* The dispatcher calls deliver(payload) of a dispatched message: the callback runs
\* up to await client.sendMessage, or returns before it
Deliver(c, payload, now, fs) ==
    /\ c \in dispatched
    /\ now >= clock
    /\ BagCardinality(sending) < MaxSending
    /\ clock' = now
    /\ LET verdict == DeliverVerdict(recentReplies, c, payload, now)
           body == MessageBody(payload.text, ReplyMedia(payload), fs)
       IN /\ sending' = IF verdict = "send"
                        THEN sending (+) SetToBag({InFlight(c.accountId, KeyOf(c),
                                                            payload.text, now)})
                        ELSE sending
          /\ emitted' = [op |-> "deliver", by |-> c.accountId, key |-> KeyOf(c),
                         text |-> payload.text,
                         media |-> ReplyMedia(payload), fs |-> fs, verdict |-> verdict,
                         sent |-> IF verdict = "send" THEN <<SendParams(c, body)>> ELSE <<>>]
    /\ recentReplies' = AfterCheck(recentReplies, c, payload, now)
    /\ UNCHANGED <<sessionvars, adminUins, dispatched>>

\* The promise of client.sendMessage settles for a suspended deliver d: on success
\* the callback records the reply, on failure it throws
SendSettles(d, ok) ==
    /\ BagIn(d, sending)
    /\ sending' = sending (-) SetToBag({d})
    /\ recentReplies' = AfterSend(recentReplies, d, ok)
    /\ emitted' = [op |-> "settle", by |-> d.by, key |-> d.key, text |-> d.text,
                   now |-> d.now, ok |-> ok,
                   first |-> \A e \in recentReplies : e.key # d.key]
    /\ UNCHANGED <<sessionvars, adminUins, dispatched, clock>>

DeliverNext ==
    \/ \E c \in dispatched, now \in Times :
          \E payload \in PayloadsFor(c) :
             \E fs \in FileSystemsFor(payload) : Deliver(c, payload, now, fs)
    \/ \E d \in BagToSet(sending), ok \in BOOLEAN : SendSettles(d, ok)

DeliverSpec == DeliverInit /\ [][DeliverNext]_vars

\* A dispatcher that awaits each deliver before it calls the next: one send is in
\* flight at most, and it is the send of the delivery just made
SerialDeliver(c, payload, now, fs) ==
    /\ sending = EmptyBag
    /\ Deliver(c, payload, now, fs)

\* The awaited send settles; replyMedia is still in the scope of the callback
SerialSettles(ok) ==
    /\ emitted.op = "deliver"
    /\ \E d \in BagToSet(sending) :
          /\ sending' = sending (-) SetToBag({d})
          /\ recentReplies' = AfterSend(recentReplies,
                                        [by |-> d.by, key |-> d.key, text |-> d.text,
                                         now |-> d.now, media |-> emitted.media], ok)
          /\ emitted' = [op |-> "settle", by |-> d.by, key |-> d.key, text |-> d.text,
                         now |-> d.now, ok |-> ok, media |-> emitted.media,
                         first |-> \A e \in recentReplies : e.key # d.key]
    /\ UNCHANGED <<sessionvars, adminUins, dispatched, clock>>

SerialNext ==
    \/ \E c \in dispatched, now \in Times :
          \E payload \in PayloadsFor(c) :
             \E fs \in FileSystemsFor(payload) : SerialDeliver(c, payload, now, fs)
    \/ \E ok \in BOOLEAN : SerialSettles(ok)

SerialSpec == DeliverInit /\ [][SerialNext]_vars

\* The same direct message reached the onMessage handlers of two accounts (the
\* same user writes to both bots, the servers number their messages alike): both
\* were dispatched
SECOND_ACCOUNT_ID == "second"

SharedClosures ==
    {ClosureOf(a, m) : a \in {DEFAULT_ACCOUNT_ID, SECOND_ACCOUNT_ID},
                       m \in {e \in Events : /\ e.message_type = "private"
                                             /\ e.user_id = 1 /\ e.message_id = 1
                                             /\ e.message = StringBody(<<"hi">>)}}

SharedInit ==
    /\ SessionAside
    /\ adminUins = NoAdmins
    /\ recentReplies = {}
    /\ dispatched = SharedClosures
    /\ sending = EmptyBag
    /\ clock = 0
    /\ emitted = Quiet

SharedSpec == SharedInit /\ [][DeliverNext]_vars

(***************************************************************************)
(* Properties                                                              *)
(***************************************************************************)
Calls == DOMAIN api.calls

\* A socket request is outstanding while its listener is registered or its timer armed
Outstanding(a, i) == i \in a.timeouts \/ \E l \in a.responseEmitter : l.call = i

HttpConfigured == Truthy(api.httpUrl)

\* C1: with an HTTP endpoint configured on the client, every action call goes over
\* HTTP: no call is given to the socket or fails for want of a transport, no frame is
\* written, no token is made and no pending socket request exists, whatever the
\* socket's state
C1_HttpPrecedence ==
    HttpConfigured =>
        /\ \A i \in Calls : api.calls[i].transport = "http"
        /\ out.wire = {}
        /\ api.wsSequence = 0
        /\ api.responseEmitter = {}
        /\ api.timeouts = {}

\* A sendMessage call made while the client held an open socket went over HTTP
C1_Witness ==
    /\ HttpConfigured
    /\ \E c \in out.issued :
          /\ c.seen = "OPEN"
          /\ c.inv.fn = "sendMessage"
          /\ api.calls[c.id].transport = "http"

\* C2: without an HTTP endpoint, a call made while the client's socket is open writes
\* exactly one frame {action, params, echo} to that socket, the action being the
\* endpoint without its slash; a call made with no socket or a socket that is not
\* open fails with the no-transport error, writes no frame and registers no listener
\* and no timer
C2_SocketFallback ==
    ~HttpConfigured =>
        \A c \in out.issued :
            LET call == api.calls[c.id]
            IN IF c.seen = "OPEN"
               THEN /\ call.transport = "ws"
                    /\ call.sock = api.ws
                    /\ socks[call.sock].readyState = "OPEN"
                    /\ call.outcomes = <<>>
                    /\ \E f \in out.wire :
                          /\ out.wire = {f}
                          /\ f.sock = call.sock
                          /\ <<"/">> \o f.frame.action = EndpointOf(c.inv)
                          /\ f.frame.params = BodyOf(c.inv)
                          /\ f.frame.echo = call.echo
                          /\ EchoTruthy(f.frame.echo)
               ELSE /\ call.transport = "none"
                    /\ call.outcomes = <<"noTransport">>
                    /\ out.wire = {}
                    /\ ~Outstanding(api, c.id)

\* One call was written to the open socket, and a later one, made while the client
\* held that socket closing, failed for want of a transport
C2_Witness ==
    /\ ~HttpConfigured
    /\ \E i \in Calls : api.calls[i].transport = "ws" /\ api.calls[i].sock = api.ws
    /\ \E c \in out.issued :
          c.seen = "CLOSING" /\ api.calls[c.id].outcomes = <<"noTransport">>

\* C3: a socket call whose timer fires completes with the timeout error and nothing
\* else, then and ever after: a response frame with its token that comes later
\* reaches no listener
C3_TimeoutOnce ==
    \A i \in Calls :
        "timeout" \in {api.calls[i].outcomes[k] : k \in DOMAIN api.calls[i].outcomes} =>
            /\ api.calls[i].outcomes = <<"timeout">>
            /\ ~Outstanding(api, i)

\* The frame just handled carried the token of a call that had timed out
C3_Witness ==
    /\ last.op = "frame"
    /\ \E i \in Calls : api.calls[i].echo = last.echo /\ api.calls[i].outcomes = <<"timeout">>

\* C4: no call completes more than once, whatever the order of response frames,
\* repeated frames, timers and socket closes
C4_AtMostOnce == \A i \in Calls : Len(api.calls[i].outcomes) <= 1

\* The same token arrived in two frames in a row, after the call's socket request
\* was answered
C4_Witness ==
    /\ last.op = "frame"
    /\ last.streak = 2
    /\ \E i \in Calls :
          /\ api.calls[i].echo = last.echo
          /\ api.calls[i].outcomes \in {<<"data">>, <<"protocolError">>}

OutstandingEchoes(a) == {l.echo : l \in a.responseEmitter}

\* No two outstanding socket calls carry the same token
UniqueTokens ==
    \A i, j \in Calls :
        (i # j /\ Outstanding(api, i) /\ Outstanding(api, j)) =>
            api.calls[i].echo # api.calls[j].echo

\* A frame whose token matches no outstanding call changes neither the listeners,
\* nor the timers, nor any call
UnknownTokenIgnored ==
    (last'.op = "frame" /\ last'.echo \notin OutstandingEchoes(api)) =>
        /\ api'.responseEmitter = api.responseEmitter
        /\ api'.timeouts = api.timeouts
        /\ api'.calls = api.calls

\* C5: outstanding socket calls carry distinct tokens, also when issued in the same
\* millisecond, and a response frame with a token of no outstanding call leaves the
\* pending requests and their timers as they were
C5_Tokens == [](UniqueTokens) /\ [][UnknownTokenIgnored]_vars

\* Two calls of the same millisecond are outstanding when a frame with a token of
\* neither arrives
C5_Witness ==
    /\ last.op = "frame"
    /\ EchoTruthy(last.echo)
    /\ last.echo \notin OutstandingEchoes(api)
    /\ \E i, j \in Calls :
          /\ i # j
          /\ Outstanding(api, i) /\ Outstanding(api, j)
          /\ api.calls[i].echo[2] = api.calls[j].echo[2]

\* C6 (as claimed): when a socket closes, every request sent on it has been failed
\* and is no longer pending
C6_FailedOnClose ==
    last.op = "close" =>
        \A i \in Calls :
            (api.calls[i].transport = "ws" /\ api.calls[i].sock = last.sock) =>
                /\ ~Outstanding(api, i)
                /\ api.calls[i].outcomes # <<>>

\* The step creates a socket connection
SocketCreated ==
    \E s \in SockIds : socks'[s].readyState = "CONNECTING" /\ socks[s].readyState # "CONNECTING"

\* C7 (as claimed): once stop() has been called the session creates no socket,
\* schedules no reconnect and runs none, and no close event counts as an attempt
C7_NoConnectAfterStop ==
    [][rt.isClosing =>
          /\ ~SocketCreated
          /\ Len(timers') <= Len(timers)
          /\ rt'.reconnectAttempts = rt.reconnectAttempts]_vars

\* C8 (as claimed): once stop() has been called no socket request completes, by a
\* response frame or by its timer
C8_NoCallbackAfterStop ==
    [][rt.isClosing =>
          \A i \in Calls :
              api.calls[i].transport = "ws" => api'.calls[i].outcomes = api.calls[i].outcomes]_vars

\* C9: a stop() that follows a stop() changes nothing of the session, closes no
\* socket, reports no error and throws none
C9_StopIdempotent ==
    [][(last'.op = "stop" /\ last'.streak = 2) =>
          /\ rt' = rt
          /\ socks' = socks
          /\ timers' = timers
          /\ api' = api
          /\ out'.errors = {}
          /\ ~out'.thrown]_vars

\* stop() was called twice in a row on a session whose socket the first call closed
C9_Witness ==
    /\ last.op = "stop"
    /\ last.streak = 2
    /\ rt.isClosing
    /\ \E s \in SockIds : socks[s].readyState = "CLOSING"

\* The milliseconds the claim lists for attempts 1..5
ListedDelay(n) ==
    CASE n = 1 -> 3000 [] n = 2 -> 4500 [] n = 3 -> 6750 [] n = 4 -> 10125 [] n = 5 -> 15187

\* d is exactly min(3000 * 1.5^(n-1), 60000)
IsExactDelay(d, n) ==
    IF 3000 * Pow(3, n - 1) <= 60000 * Pow(2, n - 1)
    THEN d.num * Pow(2, n - 1) = 3000 * Pow(3, n - 1) * d.den
    ELSE d.num = 60000 * d.den

\* C10 (as claimed): the delay scheduled for attempt n is exactly
\* min(3000 * 1.5^(n-1), 60000) ms and, for n = 1..5, it is exactly the listed
\* 3000, 4500, 6750, 10125, 15187 ms
C10_ExactDelays ==
    \A k \in DOMAIN timers :
        LET n == timers[k].attempt
            d == timers[k].delay
        IN /\ IsExactDelay(d, n)
           /\ n <= 5 => d.num = ListedDelay(n) * d.den
           /\ d.num <= 60000 * d.den

\* C10 (amended): the delay scheduled for attempt n is min(3000 * 1.5^(n-1), 60000)
\* ms: exactly 3000, 4500, 6750, 10125 ms for n = 1..4, 15187.5 ms for n = 5 (of
\* which 15187 is the whole part), and at most 60000 ms for every n in 1..10
C10_Backoff ==
    \A k \in DOMAIN timers :
        LET n == timers[k].attempt
            d == timers[k].delay
        IN /\ n \in 1..10
           /\ IsExactDelay(d, n)
           /\ n <= 4 => d.num = ListedDelay(n) * d.den
           /\ n = 5 => /\ 2 * d.num = 30375 * d.den
                       /\ d.num \div d.den = ListedDelay(5)
           /\ d.num <= 60000 * d.den

\* The fifth consecutive attempt is scheduled, with a delay that is not a whole
\* number of milliseconds
C10_Witness ==
    \E k \in DOMAIN timers :
        /\ timers[k].attempt = 5
        /\ timers[k].delay.num % timers[k].delay.den # 0
        /\ rt.reconnectAttempts = 5

\* The tenth consecutive attempt is scheduled, with the capped delay
C10_WitnessCap ==
    \E k \in DOMAIN timers :
        /\ timers[k].attempt = 10
        /\ timers[k].delay = [num |-> 60000, den |-> 1]

\* Nothing of the session is left that could connect: no reconnect timer, no
\* start() in flight, no socket of the session that is not closed
Quiescent ==
    /\ timers = <<>>
    /\ ~rt.awaiting
    /\ rt.phase = "running"
    /\ \A s \in SockIds : socks[s].attached => socks[s].readyState = "CLOSED"

\* The step is a socket close not caused by stop(), or a start() that threw
CloseOrStartFailure ==
    \/ last'.op = "close" /\ ~rt.isClosing
    \/ "start" \in out'.errors

\* C11: the attempt counter stays within 0..10; a step sets a reconnect timer only
\* from a counter below 10, which it raises by one; a close or a start failure at
\* counter 10 reports the terminal error and sets no timer; and from the report on
\* the session has nothing left that connects, so it never creates a socket again
C11_ReconnectCap ==
    /\ [](/\ rt.reconnectAttempts \in 0..maxReconnectAttempts
          /\ \A k \in DOMAIN timers : timers[k].attempt \in 1..maxReconnectAttempts
          /\ "maxReconnect" \in out.errors => Quiescent)
    /\ [][/\ Len(timers') > Len(timers) =>
                /\ rt.reconnectAttempts < maxReconnectAttempts
                /\ rt'.reconnectAttempts = rt.reconnectAttempts + 1
                /\ Len(timers') = Len(timers) + 1
          /\ (CloseOrStartFailure /\ Truthy(account.wsUrl)
                 /\ rt.reconnectAttempts = maxReconnectAttempts) =>
                /\ "maxReconnect" \in out'.errors
                /\ Len(timers') <= Len(timers)
                /\ rt'.reconnectAttempts = maxReconnectAttempts
          /\ Quiescent => (Quiescent' /\ ~SocketCreated)]_vars

\* The tenth reconnect's socket closes: the terminal error is reported
C11_Witness ==
    /\ last.op = "close"
    /\ "maxReconnect" \in out.errors
    /\ rt.reconnectAttempts = maxReconnectAttempts
    /\ timers = <<>>

\* The tenth reconnect's start() throws: the terminal error is reported
C11_WitnessStart ==
    /\ last.op = "timer"
    /\ {"start", "maxReconnect"} \subseteq out.errors
    /\ rt.reconnectAttempts = maxReconnectAttempts

\* C12: a socket close not caused by stop() leaves the client without a socket and,
\* when the counter is below the cap, sets exactly one reconnect timer; the client
\* gets a socket again only by an open, and that socket is open; the client never
\* holds a connecting socket; and a call made without HTTP endpoint while the
\* client holds no open socket fails with the no-transport error, writing no frame
C12_DetachOnClose ==
    /\ [](api.ws # NULL => socks[api.ws].readyState # "CONNECTING")
    /\ [][/\ (last'.op = "close" /\ ~rt.isClosing) =>
                /\ api'.ws = NULL
                /\ rt.reconnectAttempts < maxReconnectAttempts =>
                      /\ Len(timers') = Len(timers) + 1
                      /\ rt'.reconnectAttempts = rt.reconnectAttempts + 1
          /\ (api.ws = NULL /\ api'.ws # NULL) =>
                /\ last'.op = "open"
                /\ api'.ws = last'.sock
                /\ socks'[api'.ws].readyState = "OPEN"
          /\ \A c \in out'.issued :
                (~Truthy(api.httpUrl) /\ c.seen # "OPEN") =>
                    /\ api'.calls[c.id].transport = "none"
                    /\ api'.calls[c.id].outcomes = <<"noTransport">>
                    /\ out'.wire = {}
                    /\ api'.responseEmitter = api.responseEmitter]_vars

\* After a close not caused by stop(), with the reconnect pending, a call is made
\* on the client without HTTP endpoint and fails with the no-transport error
C12_Witness ==
    /\ last.op = "call"
    /\ ~rt.isClosing
    /\ ~Truthy(api.httpUrl)
    /\ api.ws = NULL
    /\ rt.ws # NULL
    /\ socks[rt.ws].readyState = "CLOSED"
    /\ timers # <<>>
    /\ \E c \in out.issued : api.calls[c.id].outcomes = <<"noTransport">>

\* The calls start() has issued for its login verification
StartCalls == {i \in Calls : api.calls[i].caller = "start"}

\* C13: on an account without wsUrl no socket is ever created, no reconnect timer
\* is ever set and the counter stays 0; with an HTTP endpoint start() issues exactly
\* one login verification, over HTTP, whatever its result; with neither endpoint
\* start() issues none and reports the configuration error, once
C13_NoSocketEndpoint ==
    /\ [](~Truthy(account.wsUrl) =>
             /\ rt.ws = NULL /\ api.ws = NULL
             /\ \A s \in SockIds : socks[s] = [readyState |-> "CLOSED", attached |-> FALSE]
             /\ timers = <<>>
             /\ rt.reconnectAttempts = 0
             /\ Cardinality(StartCalls) <= 1
             /\ (Truthy(api.httpUrl) /\ rt.phase # "new") =>
                   \E i \in StartCalls : api.calls[i].transport = "http"
             /\ ~Truthy(account.httpUrl) => StartCalls = {})
    /\ [][~Truthy(account.wsUrl) =>
             /\ (last'.op = "start" /\ ~Truthy(account.httpUrl)) => out'.errors = {"config"}
             /\ (last'.op # "start" \/ Truthy(account.httpUrl)) => out'.errors = {}]_vars

\* An HTTP-only session whose login verification failed: it runs, without socket
\* and without timer
C13_Witness ==
    /\ ~Truthy(account.wsUrl)
    /\ Truthy(api.httpUrl)
    /\ rt.phase = "running"
    /\ \E i \in StartCalls : api.calls[i].outcomes = <<"httpError">>
    /\ timers = <<>>

\* A session with neither endpoint has reported the configuration error
C13_WitnessNeither ==
    /\ ~Truthy(account.wsUrl)
    /\ ~Truthy(account.httpUrl)
    /\ last.op = "start"
    /\ out.errors = {"config"}

\* The step is a call of onMessage
Received == emitted'.op = "onMessage"

\* The call of onMessage dispatched nothing and sent nothing
NothingDispatched ==
    /\ emitted'.verdict # "dispatch"
    /\ emitted'.ctx = <<>>
    /\ dispatched' = dispatched
    /\ sending' = sending
    /\ recentReplies' = recentReplies

\* The message mentions the bot: a mention segment whose target is the bot's
\* identity, or, in a string body, the inline marker for that identity
MentionsSelf(m) ==
    \/ /\ m.message.form = "array"
       /\ \E i \in DOMAIN m.message.segs :
             /\ m.message.segs[i].type = "at"
             /\ m.message.segs[i].qq.v = Str(m.self_id)
    \/ /\ m.message.form = "string"
       /\ Includes(m.message.str, <<"[CQ:at,qq=">> \o Str(m.self_id) \o <<"]">>)

\* The sender is on the account's allowlist, or there is no allowlist
SenderAllowed(m) ==
    (adminUins.has /\ adminUins.items # <<>>) =>
        \E i \in DOMAIN adminUins.items : adminUins.items[i] = m.user_id

\* C18 (as claimed): a group message is dispatched if and only if it mentions the bot
C18_DispatchedIffMentioned ==
    (emitted.op = "onMessage" /\ emitted.message.message_type = "group") =>
        (emitted.verdict = "dispatch" <=> MentionsSelf(emitted.message))

\* C18 (amended): a group message passes the addressed filter if and only if it
\* mentions the bot, a direct message always passes it; a group message that does
\* not mention the bot is not dispatched and nothing is sent; one that does is
\* dispatched exactly when its sender passes the admin check and its normalized
\* text is not empty
C18_AddressedFilter ==
    [][Received =>
          LET m == emitted'.message
          IN /\ emitted'.verdict = "mention" <=>
                   (m.message_type = "group" /\ ~MentionsSelf(m) /\ SenderAllowed(m))
             /\ (m.message_type = "group" /\ ~MentionsSelf(m)) => NothingDispatched
             /\ (m.message_type = "group" /\ MentionsSelf(m)) =>
                   (emitted'.verdict = "dispatch" <=>
                       (SenderAllowed(m) /\ Truthy(MessageText(m))))
             /\ emitted'.verdict = "dispatch" => Closure(m) \in dispatched']_vars

\* A group message that mentions the bot by a segment is dispatched, with the
\* text of its text segments
C18_Witness ==
    /\ emitted.op = "onMessage"
    /\ emitted.verdict = "dispatch"
    /\ emitted.message.message_type = "group"
    /\ emitted.message.message.form = "array"
    /\ emitted.ctx[1].RawBody = <<"hello", " ", " ", "world">>
    /\ emitted.ctx[1].ChatType = "channel"

\* A group message in string form carrying the inline marker is dispatched
C18_WitnessMarker ==
    /\ emitted.op = "onMessage"
    /\ emitted.verdict = "dispatch"
    /\ emitted.message.message_type = "group"
    /\ emitted.message.message.form = "string"

\* The first image segment of an array body, as a set (empty when there is none)
FirstImageSeg(m) ==
    {m.message.segs[i] : i \in {j \in DOMAIN m.message.segs :
        /\ m.message.segs[j].type = "image"
        /\ \A k \in 1..(j - 1) : m.message.segs[k].type # "image"}}

\* The text segments of the body hold nothing but white space
NoText(m) ==
    \A i \in DOMAIN m.message.segs :
        m.message.segs[i].type = "text" =>
            \A k \in DOMAIN m.message.segs[i].text : IsSpace(m.message.segs[i].text[k])

\* C19: for a message that passes the admin and mention checks: with an image
\* segment and no text, and a first image segment that has a url or a file, it is
\* dispatched with the text "[Image]" followed by the annotation of the media
\* reference, the reference being the url, or the file when there is no url; every
\* dispatched message with a media reference carries that annotation at the end
\* of its text; with no text and no media reference nothing is dispatched or sent
C19_Normalization ==
    [][(Received /\ emitted'.verdict \notin {"admin", "mention"}) =>
          LET m == emitted'.message
          IN /\ (m.message.form = "array" /\ NoText(m)) =>
                   \A seg \in FirstImageSeg(m) :
                       LET ref == IF seg.url # <<>> THEN seg.url ELSE seg.file
                       IN ref # <<>> =>
                             /\ emitted'.verdict = "dispatch"
                             /\ emitted'.ctx[1].MediaUrl = ref
                             /\ emitted'.ctx[1].RawBody =
                                   <<"[Image]", "\n", "[MediaUrl: ">> \o ref \o <<"]">>
             /\ (emitted'.verdict = "dispatch" /\ emitted'.ctx[1].MediaUrl # <<>>) =>
                   LET body == emitted'.ctx[1].RawBody
                       ref == emitted'.ctx[1].MediaUrl
                   IN /\ Len(body) >= Len(ref) + 3
                      /\ SubSeq(body, Len(body) - Len(ref) - 2, Len(body)) =
                            <<"\n", "[MediaUrl: ">> \o ref \o <<"]">>
             /\ (/\ \/ m.message.form = "array" /\ NoText(m)
                    \/ m.message.form = "string"
                       /\ \A k \in DOMAIN m.message.str : IsSpace(m.message.str[k])
                 /\ \A seg \in FirstImageSeg(m) : seg.url = <<>> /\ seg.file = <<>>) =>
                   (emitted'.verdict = "empty" /\ NothingDispatched)
             /\ emitted'.verdict = "dispatch" => emitted'.ctx[1].RawBody # <<>>]_vars

\* An image without text and without url was dispatched under its file reference
C19_Witness ==
    /\ emitted.op = "onMessage"
    /\ emitted.verdict = "dispatch"
    /\ emitted.message.message = ArrayBody(<<ImageSeg(<<>>, File1)>>)
    /\ emitted.ctx[1].MediaUrl = File1
    /\ emitted.ctx[1].RawBody[1] = "[Image]"

\* A message without text and without media reference was dropped
C19_WitnessDrop ==
    /\ emitted.op = "onMessage"
    /\ emitted.verdict = "empty"
    /\ emitted.message.message = ArrayBody(<<AtSeg(NumQQ(SelfId))>>)
    /\ dispatched = {}

\* C20: with a non-empty allowlist, a message whose sender is not on it is never
\* dispatched and nothing is sent for it, direct or group, mentioning the bot or
\* not; without allowlist, or with an empty one, no message is dropped for its sender
C20_AdminAllowlist ==
    [][Received =>
          LET m == emitted'.message
              listed == \E i \in DOMAIN adminUins.items : adminUins.items[i] = m.user_id
          IN /\ (adminUins.has /\ Len(adminUins.items) > 0 /\ ~listed) =>
                   (emitted'.verdict = "admin" /\ NothingDispatched)
             /\ (~adminUins.has \/ Len(adminUins.items) = 0) => emitted'.verdict # "admin"
             /\ listed => emitted'.verdict # "admin"]_vars

\* A direct message from a sender who is not on the allowlist was dropped
C20_Witness ==
    /\ emitted.op = "onMessage"
    /\ emitted.verdict = "admin"
    /\ emitted.message.message_type = "private"
    /\ emitted.message.message = StringBody(<<"hi">>)
    /\ adminUins.items = <<2, 3>>
    /\ emitted.message.user_id = 1

\* ---- Reply delivery: deduplication and media resolution ----

\* The step is a call of deliver; the step resumes a deliver after its send
Delivered == emitted'.op = "deliver"
Settled == emitted'.op = "settle"

\* The record kept for a key, if any
RecordOf(replies, key) == {e \in replies : e.key = key}

\* C14 (as claimed): of two deliveries with the same text, no media and the same
\* key, less than 5000 ms apart, the second issues no send action, also when it
\* starts while the send of the first has not completed
C14_OneSendForDuplicates ==
    [][(/\ emitted.op = "deliver" /\ emitted.verdict = "send" /\ emitted.media = <<>>
        /\ Delivered /\ emitted'.media = <<>>
        /\ emitted'.key = emitted.key /\ emitted'.text = emitted.text
        /\ clock' - clock < REPLY_DEDUP_WINDOW_MS)
          => emitted'.verdict # "send"]_vars

\* C15: a non-empty reply is suppressed exactly when it has no media, a record
\* exists for its key, the record's text is the reply's text and less than 5000 ms
\* passed since the record's timestamp; in every other case the send is issued,
\* to the conversation of the originating message
C15_SuppressedOnlyWhen ==
    [][(Delivered /\ (Truthy(emitted'.text) \/ emitted'.media # <<>>)) =>
          LET duplicate ==
                  /\ emitted'.media = <<>>
                  /\ \E e \in RecordOf(recentReplies, emitted'.key) :
                        /\ e.text = emitted'.text
                        /\ clock' - e.timestamp < 5000
          IN /\ duplicate => (emitted'.verdict = "suppressed" /\ emitted'.sent = <<>>
                              /\ sending' = sending)
             /\ ~duplicate => (/\ emitted'.verdict = "send"
                               /\ Len(emitted'.sent) = 1
                               /\ BagCardinality(sending') = BagCardinality(sending) + 1
                               /\ BagIn(InFlight(emitted'.by, emitted'.key, emitted'.text, clock'),
                                        sending'))]_vars

\* A reply is suppressed 4999 ms after the record of the same text
C15_Witness ==
    /\ emitted.op = "deliver"
    /\ emitted.verdict = "suppressed"
    /\ clock = 4999
    /\ \E e \in RecordOf(recentReplies, emitted.key) :
          e.text = emitted.text /\ e.timestamp = 0

\* The same reply is sent 5000 ms after the record of the same text
C15_WitnessWindow ==
    /\ emitted.op = "deliver"
    /\ emitted.verdict = "send"
    /\ emitted.media = <<>>
    /\ clock = 5000
    /\ \E e \in RecordOf(recentReplies, emitted.key) :
          e.text = emitted.text /\ e.timestamp = 0

\* C16 (as claimed): after the delivery of a reply that was not suppressed, the
\* record of its key holds the reply's text and the time of the delivery
C16_EverySendRecorded ==
    [][Settled =>
          RecordOf(recentReplies', emitted'.key) =
              {[key |-> emitted'.key, text |-> emitted'.text,
                timestamp |-> emitted'.now]}]_vars

\* C16 (amended): when the send of a non-suppressed delivery completes
\* successfully, the record of its key holds the reply's text and the time of the
\* delivery, and the other records are as before; when the send fails no record
\* changes; no record changes before the send has completed
C16_SuccessfulSendRecorded ==
    [][/\ (Settled /\ emitted'.ok) =>
             /\ RecordOf(recentReplies', emitted'.key) =
                   {[key |-> emitted'.key, text |-> emitted'.text,
                     timestamp |-> emitted'.now]}
             /\ \A e \in recentReplies \cup recentReplies' :
                   e.key # emitted'.key => (e \in recentReplies <=> e \in recentReplies')
       /\ (Settled /\ ~emitted'.ok) => recentReplies' = recentReplies
       /\ Delivered => recentReplies' = recentReplies]_vars

\* A successful send overwrote the record of an earlier reply under the same key
C16_Witness ==
    /\ emitted.op = "settle"
    /\ emitted.ok
    /\ emitted.text = <<"b">>
    /\ emitted.now = 4999
    /\ [key |-> emitted.key, text |-> <<"b">>, timestamp |-> 4999] \in recentReplies
    /\ Cardinality(recentReplies) = 2

\* What the claim says a media reference becomes
ExpectedFile(ref, fs) ==
    IF ref = LocalPath
    THEN IF fs[LocalPath] = "readable"
         THEN <<"base64://", "base64 of the bytes at ">> \o ref
         ELSE <<"file://">> \o ref
    ELSE ref

\* C17: a reply with media is always sent, with one image segment per media
\* reference, in order, after the text segment if there is text: a readable local
\* path as inline base64, an unreadable or missing local path as a file:// reference,
\* any other reference unchanged
C17_MediaResolution ==
    [][(Delivered /\ emitted'.media # <<>>) =>
          /\ emitted'.verdict = "send"
          /\ Len(emitted'.sent) = 1
          /\ LET body == emitted'.sent[1].message
                 lead == IF Truthy(emitted'.text) THEN 1 ELSE 0
             IN /\ body.form = "array"
                /\ Len(body.segs) = lead + Len(emitted'.media)
                /\ lead = 1 => body.segs[1] = TextSeg(emitted'.text)
                /\ \A i \in DOMAIN emitted'.media :
                      /\ body.segs[lead + i].type = "image"
                      /\ body.segs[lead + i].file =
                            ExpectedFile(emitted'.media[i], emitted'.fs)]_vars

\* A reply whose one media item is a local path that does not exist is sent with a
\* file:// reference
C17_Witness ==
    /\ emitted.op = "deliver"
    /\ emitted.media = <<LocalPath>>
    /\ emitted.fs[LocalPath] = "missing"
    /\ emitted.verdict = "send"
    /\ emitted.sent[1].message.segs[1].file = <<"file://", "/", "tmp", "/", "a.png">>

\* A reply whose local file cannot be read is sent with a file:// reference
C17_WitnessUnreadable ==
    /\ emitted.op = "deliver"
    /\ emitted.media = <<LocalPath>>
    /\ emitted.fs[LocalPath] = "unreadable"
    /\ emitted.sent[1].message.segs[1].file = <<"file://", "/", "tmp", "/", "a.png">>

(***************************************************************************)
(* Channel plugin (channel.ts): outbound.sendText, called by the host with *)
(* a target string and an account id                                       *)
(***************************************************************************)
MaxIdLen == 2

\* The characters after the kind of a target: decimal digits and a letter
IdChars == {"1", "2", "x"}
IsDigit(c) == c \in {"1", "2"}
DigitValue(c) == IF c = "1" THEN 1 ELSE 2

RECURSIVE IdStrings(_)
IdStrings(n) ==
    IF n = 0 THEN {<<>>}
    ELSE IdStrings(n - 1) \cup {Append(t, c) : t \in IdStrings(n - 1), c \in IdChars}

\* The targets the host passes: with or without the plugin prefix, a kind or none,
\* then the characters of the id
Targets ==
    {prefix \o kind \o id :
        prefix \in {<<>>, <<"napcat-channel:">>},
        kind \in {<<"group:">>, <<"private:">>, <<"user:">>, <<>>},
        id \in IdStrings(MaxIdLen)}

\* JavaScript numbers as far as parseInt produces them
NaN == [t |-> "NaN", v |-> 0]
Num(n) == [t |-> "number", v |-> n]

\* The longest prefix of decimal digits of s
RECURSIVE LeadingDigits(_)
LeadingDigits(s) ==
    IF s = <<>> \/ ~IsDigit(Head(s)) THEN <<>>
    ELSE <<Head(s)>> \o LeadingDigits(Tail(s))

RECURSIVE DecimalValue(_)
DecimalValue(d) ==
    IF d = <<>> THEN 0
    ELSE 10 * DecimalValue(SubSeq(d, 1, Len(d) - 1)) + DigitValue(d[Len(d)])

\* parseInt(s, 10) on strings without blanks or sign: the value of the leading
\* digits, whatever follows them; NaN when s does not start with a digit
ParseInt(s) ==
    IF LeadingDigits(s) = <<>> THEN NaN ELSE Num(DecimalValue(LeadingDigits(s)))

\* parseTarget(target): the prefix is stripped once, the kind decides the type, the
\* rest goes through parseInt; anything else throws
ParseTarget(target) ==
    LET t == IF StartsWith(target, "napcat-channel:") THEN Tail(target) ELSE target
    IN IF StartsWith(t, "group:")
       THEN [thrown |-> FALSE, type |-> "group", id |-> ParseInt(Tail(t))]
       ELSE IF StartsWith(t, "private:")
       THEN [thrown |-> FALSE, type |-> "private", id |-> ParseInt(Tail(t))]
       ELSE [thrown |-> TRUE, type |-> "none", id |-> NaN]

\* The plugin's configuration: one account under accounts, and the top-level
\* urls that stand for the default account
HostConfig ==
    [accounts |-> {SECOND_ACCOUNT_ID}, wsUrl |-> <<"ws://h">>, httpUrl |-> <<"http://h">>]

AccountIds == {DEFAULT_ACCOUNT_ID, SECOND_ACCOUNT_ID, "unknown"}

\* resolveNapCatAccount(cfg, accountId) # null
ResolveNapCatAccount(cfg, accountId) ==
    \/ accountId \in cfg.accounts
    \/ accountId = DEFAULT_ACCOUNT_ID /\ (Truthy(cfg.wsUrl) \/ Truthy(cfg.httpUrl))

\* outbound.sendText({to, text, accountId}) up to its call of client.sendMessage:
\* what it throws, or the endpoint and the parameters of the action
SendText(cfg, to, accountId) ==
    IF ~ResolveNapCatAccount(cfg, accountId)
    THEN [thrown |-> TRUE, error |-> "notConfigured", sent |-> <<>>]
    ELSE IF ParseTarget(to).thrown
    THEN [thrown |-> TRUE, error |-> "invalidTarget", sent |-> <<>>]
    ELSE LET type == ParseTarget(to).type
         IN [thrown |-> FALSE, error |-> "none",
             sent |-> <<[endpoint |-> EndpointOf([fn |-> "sendMessage",
                                                  message_type |-> type]),
                         message_type |-> type,
                         target |-> IF type = "group" THEN "group_id" ELSE "user_id",
                         id |-> ParseTarget(to).id,
                         message |-> <<"text">>]>>]

OutboundInit ==
    /\ SessionAside
    /\ adminUins = NoAdmins
    /\ ChannelLoaded

\* The host calls outbound.sendText
SendTextCall(to, accountId) ==
    /\ emitted' = [op |-> "sendText", to |-> to, accountId |-> accountId]
                   @@ SendText(HostConfig, to, accountId)
    /\ UNCHANGED <<sessionvars, adminUins, recentReplies, dispatched, sending, clock>>

OutboundNext == \E to \in Targets, accountId \in AccountIds : SendTextCall(to, accountId)

OutboundSpec == OutboundInit /\ [][OutboundNext]_vars

\* ---- Outcomes of action calls ----

\* The calls that went out on a socket
WsCalls == {i \in Calls : api.calls[i].transport = "ws" /\ api.calls[i].echo # NoEcho}

\* The response handed to the completion callback of call i in the step
HeardBy(i) == {h \in out'.heard : h.call = i}

\* A call completes in the step
Completes(i) == api.calls[i].outcomes = <<>> /\ api'.calls[i].outcomes # <<>>

\* C23: a socket call completes with result data, a protocol error or a timeout
\* error, and with one of them only; with the timeout error only when its timer
\* fires while its listener is still waiting (no frame with its token came first),
\* with the protocol error only on a response of failed status and nonzero return
\* code, with data on every other response; a frame with the token of a waiting
\* call always completes it
C23_SocketOutcome ==
    /\ [](\A i \in WsCalls :
            /\ api.calls[i].outcomes \in
                  {<<>>, <<"data">>, <<"protocolError">>, <<"timeout">>}
            /\ api.calls[i].outcomes = <<>> => Outstanding(api, i))
    /\ [][\A i \in WsCalls :
            /\ api'.calls[i].outcomes # api.calls[i].outcomes => Completes(i)
            /\ (Completes(i) /\ api'.calls[i].outcomes = <<"timeout">>) =>
                  (last'.op = "timeout" /\ last'.echo = api.calls[i].echo
                   /\ HeardBy(i) = {})
            /\ (Completes(i) /\ api'.calls[i].outcomes = <<"protocolError">>) =>
                  /\ last'.op = "frame" /\ last'.echo = api.calls[i].echo
                  /\ HeardBy(i) # {}
                  /\ \A h \in HeardBy(i) : h.status = "failed" /\ h.retcode # 0
            /\ (Completes(i) /\ api'.calls[i].outcomes = <<"data">>) =>
                  /\ last'.op = "frame" /\ last'.echo = api.calls[i].echo
                  /\ HeardBy(i) # {}
                  /\ \A h \in HeardBy(i) : h.status = "ok" \/ h.retcode = 0
            /\ (last'.op = "frame" /\ last'.echo = api.calls[i].echo
                /\ api.calls[i].outcomes = <<>>) => Completes(i)]_vars

\* One socket call ended with the protocol error and another with the timeout error
C23_Witness ==
    \E i, j \in WsCalls :
        /\ api.calls[i].outcomes = <<"protocolError">>
        /\ api.calls[j].outcomes = <<"timeout">>

\* A response of failed status and return code 0 completed a socket call with data
C23_WitnessZero ==
    /\ last.op = "frame"
    /\ \E h \in out.heard :
          /\ h.status = "failed" /\ h.retcode = 0
          /\ api.calls[h.call].outcomes = <<"data">>

\* The calls that went out as an HTTP POST
HttpCalls == {i \in Calls : api.calls[i].transport = "http"}

\* The HTTP calls issued in the step
NewHttpCalls ==
    {i \in DOMAIN api'.calls : i \notin DOMAIN api.calls /\ api'.calls[i].transport = "http"}

\* C24: each HTTP call issues one POST, to the endpoint under the client's base
\* URL, and none when its response is in, whatever the response; the call fails when
\* the fetch is rejected, when the HTTP status is not 2xx, or when the body's
\* status is not ok and its return code is nonzero, and returns the data otherwise,
\* also for a status that is not ok with return code 0
C24_HttpOutcome ==
    /\ [](\A i \in HttpCalls : Len(api.calls[i].outcomes) <= 1)
    /\ [][/\ {p.call : p \in out'.posts} = NewHttpCalls
          /\ Cardinality(out'.posts) = Cardinality(NewHttpCalls)
          /\ \A p \in out'.posts :
                \E c \in out'.issued :
                   c.id = p.call /\ p.url = api.httpUrl \o EndpointOf(c.inv)
          /\ last'.op = "http" => (out'.posts = {} /\ out'.wire = {}
                                  /\ Len(api'.calls) = Len(api.calls))
          /\ \A i \in HttpCalls :
                /\ api'.calls[i].outcomes # api.calls[i].outcomes =>
                      (Completes(i) /\ last'.op = "http" /\ Cardinality(HeardBy(i)) = 1)
                /\ \A h \in HeardBy(i) :
                      IF \/ h.http # "2xx"
                         \/ (h.status # "ok" /\ h.retcode # 0)
                      THEN api'.calls[i].outcomes \in
                              {<<"networkError">>, <<"httpError">>, <<"protocolError">>}
                      ELSE api'.calls[i].outcomes = <<"data">>]_vars

\* A 2xx response whose body has a failed status and return code 0 returned data
C24_Witness ==
    /\ last.op = "http"
    /\ \E h \in out.heard :
          /\ h.http = "2xx" /\ h.status = "failed" /\ h.retcode = 0
          /\ api.calls[h.call].outcomes = <<"data">>

\* A 2xx response whose body has a failed status and return code 1 failed the call
C24_WitnessFailed ==
    /\ last.op = "http"
    /\ \E h \in out.heard :
          /\ h.http = "2xx" /\ h.status = "failed" /\ h.retcode = 1
          /\ api.calls[h.call].outcomes = <<"protocolError">>
          /\ h.call = 2

\* ---- Inbound frames ----

\* The step handled a frame that parsed
FrameHandled == last'.op = "frame"

\* The session is as it was before the step
SessionUnchanged ==
    /\ rt' = rt
    /\ socks' = socks
    /\ timers' = timers
    /\ api' = api

\* C25 (as claimed): a frame with an echo field is never forwarded to the message
\* handler, whatever its post_type; a frame without echo whose post_type is message
\* is forwarded once; every other frame changes nothing in the session
C25_EchoNeverForwarded ==
    [][FrameHandled =>
          /\ last'.echo # NoEcho => out'.forwarded = 0
          /\ last'.echo = NoEcho => (out'.forwarded \in {0, 1} /\ SessionUnchanged)]_vars

\* C25 (amended): a frame with a non-empty echo is handed to the pending requests
\* of the Action Client only and is never forwarded to the message handler,
\* whatever its post_type; a frame with no echo or an empty echo is forwarded to
\* the message handler once when its post_type is message and not otherwise, and
\* changes nothing in the session
C25_Demultiplexing ==
    [][FrameHandled =>
          /\ EchoTruthy(last'.echo) =>
                (out'.forwarded = 0 /\ rt' = rt /\ socks' = socks /\ timers' = timers)
          /\ ~EchoTruthy(last'.echo) =>
                /\ out'.heard = {}
                /\ SessionUnchanged
                /\ \A p \in {"message", "meta_event", "none"} :
                      SockMessage(last'.sock, Frame("json", last'.echo, p, <<"ok", 0>>))
                          => out'.forwarded = IF p = "message" THEN 1 ELSE 0]_vars

\* A frame carrying the token of a waiting call and post_type message completed the
\* call and was not forwarded
C25_Witness ==
    /\ last.op = "frame"
    /\ out.forwarded = 0
    /\ \E h \in out.heard : api.calls[h.call].echo = last.echo

\* A frame with an empty echo was forwarded to the message handler
C25_WitnessEmpty ==
    /\ last.op = "frame"
    /\ last.echo = EmptyEcho
    /\ out.forwarded = 1

\* ---- The socket of the Action Client ----

\* On a successful open the counter is zero and the opened socket is the socket of
\* the session and of the client
OpenHandsOver ==
    last'.op = "open" =>
        /\ rt'.reconnectAttempts = 0
        /\ api'.ws = last'.sock
        /\ rt'.ws = last'.sock
        /\ socks'[last'.sock].readyState = "OPEN"

\* C27 (as claimed): every open resets the counter and makes the opened socket the
\* client's socket; the client's socket is always absent or the session's current
\* socket
C27_ClientSocketCurrent ==
    /\ [](api.ws = NULL \/ api.ws = rt.ws)
    /\ [][OpenHandsOver]_vars

\* C27 (amended): every open resets the counter and makes the opened socket the
\* client's socket; the client's socket is absent or the session's current socket,
\* except between stop() and the close event of the socket stop() closed, when it
\* is that socket, which is closing and which the session has let go
C27_ClientSocket ==
    /\ []((api.ws # NULL /\ api.ws # rt.ws) =>
             /\ rt.isClosing
             /\ rt.ws = NULL
             /\ socks[api.ws].readyState = "CLOSING")
    /\ [][OpenHandsOver]_vars

\* The socket of a reconnect opened (the open handlers of two connections have
\* each issued their login call): the counter is back at zero and the client holds
\* the new socket
C27_Witness ==
    /\ last.op = "open"
    /\ Len(api.calls) = 2
    /\ \A i \in Calls : api.calls[i].caller = "open"
    /\ rt.reconnectAttempts = 0
    /\ api.ws = last.sock
    /\ rt.ws = last.sock

\* stop() was called on an open connection: the client still holds the socket
C27_WitnessStop ==
    /\ last.op = "stop"
    /\ api.ws # NULL
    /\ rt.ws = NULL

\* C28: a frame that does not parse as JSON changes nothing: the socket it came on
\* keeps its state, the counter, the closing flag, the reconnect timers and the
\* pending requests are as before, nothing is reported, sent or forwarded; a frame
\* that follows it with the token of a waiting call completes that call
C28_ParseFailureDropped ==
    [][/\ last'.op = "garbage" =>
             /\ SessionUnchanged
             /\ socks'[last'.sock].readyState \in {"OPEN", "CLOSING"}
             /\ out' = Silent
       /\ (last.op = "garbage" /\ FrameHandled) =>
             \A i \in WsCalls :
                (api.calls[i].echo = last'.echo /\ api.calls[i].outcomes = <<>>)
                    => Completes(i)]_vars

\* A frame that does not parse arrived on the open socket while a call was waiting
\* for its response
C28_Witness ==
    /\ last.op = "garbage"
    /\ socks[last.sock].readyState = "OPEN"
    /\ \E i \in WsCalls : api.calls[i].outcomes = <<>> /\ Outstanding(api, i)
    /\ ~rt.isClosing

\* ---- Failed sends and the assembled body ----

\* The records of a key that hold a text
RecordedText(replies, key, text) == {e \in RecordOf(replies, key) : e.text = text}

\* C29: the record is written only when the send succeeded: a failed send leaves
\* the recent-reply table as it was, and the text-only redelivery of the same
\* text for the same key right after the failure, less than 5000 ms after the
\* failed delivery, is sent again unless a successful send of that text had been
\* recorded for the key
C29_FailedSendNotRecorded ==
    [][/\ (Settled /\ ~emitted'.ok) => recentReplies' = recentReplies
       /\ (/\ emitted.op = "settle" /\ ~emitted.ok
           /\ Delivered /\ emitted'.media = <<>> /\ Truthy(emitted'.text)
           /\ emitted'.key = emitted.key /\ emitted'.text = emitted.text
           /\ clock' - emitted.now < REPLY_DEDUP_WINDOW_MS
           /\ RecordedText(recentReplies, emitted.key, emitted.text) = {})
             => (emitted'.verdict = "send" /\ Len(emitted'.sent) = 1)]_vars

\* The only send so far failed: nothing is recorded and nothing is in flight
C29_Witness ==
    /\ emitted.op = "settle"
    /\ ~emitted.ok
    /\ emitted.text = <<"a">>
    /\ recentReplies = {}
    /\ sending = EmptyBag

\* A send failed 4999 ms after another reply of the same key was recorded: the
\* earlier record is still the only one
C29_WitnessKept ==
    /\ emitted.op = "settle"
    /\ ~emitted.ok
    /\ emitted.now = 4999
    /\ recentReplies = {[key |-> emitted.key, text |-> <<"b">>, timestamp |-> 0]}
    /\ emitted.text = <<"a">>

\* The body the claim describes for a payload with media
SegmentsOf(text, media, fs) ==
    (IF Truthy(text) THEN <<TextSeg(text)>> ELSE <<>>)
    \o [i \in DOMAIN media |-> Seg("image", <<>>, NoQQ, <<>>, ExpectedFile(media[i], fs))]

\* The deliveries with neither text nor media, and with media
EmptyReply == Delivered /\ ~Truthy(emitted'.text) /\ emitted'.media = <<>>
MediaReply == Delivered /\ emitted'.media # <<>>

\* The parts of the claim that hold as stated: nothing is sent and nothing recorded
\* for a payload with neither text nor media; a payload with media is sent once
\* with the text segment first, if there is text, and one segment per media item
\* in order
BodyOfEmptyAndMedia ==
    /\ EmptyReply => (/\ emitted'.verdict = "empty" /\ emitted'.sent = <<>>
                      /\ recentReplies' = recentReplies /\ sending' = sending)
    /\ MediaReply => (/\ Len(emitted'.sent) = 1
                      /\ emitted'.sent[1].message =
                            ArrayBody(SegmentsOf(emitted'.text, emitted'.media,
                                                 emitted'.fs)))

\* C30 (as claimed): a payload with no text and no media issues no send and
\* changes no record; a payload with text and no media issues one send with the
\* plain text as body; a payload with media issues one send whose body is the text
\* segment, iff there is text, then one segment per media item in order
C30_BodyAssembly ==
    [][/\ BodyOfEmptyAndMedia
       /\ (Delivered /\ Truthy(emitted'.text) /\ emitted'.media = <<>>) =>
             (/\ Len(emitted'.sent) = 1
              /\ emitted'.sent[1].message = StringBody(emitted'.text))]_vars

\* C30 (amended): as claimed, except that a payload with text and no media issues
\* no send when it is suppressed as a duplicate; when it is not, it issues one
\* send with the plain text as body
C30_BodyAssemblyUnlessSuppressed ==
    [][/\ BodyOfEmptyAndMedia
       /\ (Delivered /\ Truthy(emitted'.text) /\ emitted'.media = <<>>) =>
             IF Suppressed(recentReplies, emitted'.key, emitted'.text, <<>>, clock')
             THEN emitted'.sent = <<>> /\ emitted'.verdict = "suppressed"
             ELSE /\ Len(emitted'.sent) = 1
                  /\ emitted'.sent[1].message = StringBody(emitted'.text)]_vars

\* A reply with text and two media items was sent as three segments, text first
C30_Witness ==
    /\ emitted.op = "deliver"
    /\ emitted.text = <<"a">>
    /\ emitted.media = <<LocalPath, RemoteUrl>>
    /\ Len(emitted.sent) = 1
    /\ Len(emitted.sent[1].message.segs) = 3
    /\ emitted.sent[1].message.segs[1] = TextSeg(<<"a">>)
    /\ emitted.sent[1].message.segs[3].file = RemoteUrl

\* A payload with neither text nor media was delivered while a record existed
C30_WitnessEmpty ==
    /\ emitted.op = "deliver"
    /\ emitted.verdict = "empty"
    /\ recentReplies # {}

\* A text-only reply was sent with the plain text as body
C30_WitnessText ==
    /\ emitted.op = "deliver"
    /\ emitted.media = <<>>
    /\ Len(emitted.sent) = 1
    /\ emitted.sent[1].message = StringBody(<<"b">>)

\* ---- Replies of different accounts ----

\* C22 (as claimed): a reply sent by one account never makes a reply of another
\* account be suppressed: when the successful send of one account wrote the first
\* record of a key (so no other account has a reply recorded for it), the next
\* delivery of another account is not suppressed, also with the same key and text
\* less than 5000 ms later
C22_NoCrossAccountSuppression ==
    [][(/\ emitted.op = "settle" /\ emitted.ok /\ emitted.first
        /\ Delivered /\ emitted'.by # emitted.by
        /\ Truthy(emitted'.text))
          => (emitted'.verdict = "send" /\ Len(emitted'.sent) = 1)]_vars

\* ---- Outbound send by target string ----

\* A target group:<id> or private:<id>, <id> a decimal number, with or without
\* the plugin prefix
TargetOfKind(to, kind) ==
    \E prefix \in {<<>>, <<"napcat-channel:">>} :
       \E id \in IdStrings(MaxIdLen) \ {<<>>} :
          /\ \A i \in DOMAIN id : IsDigit(id[i])
          /\ to = prefix \o <<kind>> \o id

\* The number a target of that form names
IdOf(to) == Num(DecimalValue(LeadingDigits(IF to[1] = "napcat-channel:"
                                           THEN SubSeq(to, 3, Len(to))
                                           ELSE SubSeq(to, 2, Len(to)))))

\* C26 (as claimed): a target group:<id>, with or without the prefix
\* napcat-channel:, issues exactly one send_group_msg with group_id = id; a target
\* private:<id> exactly one send_private_msg with user_id = id; every other
\* target, and every account id that is not configured, raises an error and issues
\* no action
C26_SendByTarget ==
    [][emitted'.op = "sendText" =>
          LET configured == emitted'.accountId \in {DEFAULT_ACCOUNT_ID, SECOND_ACCOUNT_ID}
              group == TargetOfKind(emitted'.to, "group:")
              private == TargetOfKind(emitted'.to, "private:")
          IN /\ (configured /\ group) =>
                   /\ ~emitted'.thrown
                   /\ Len(emitted'.sent) = 1
                   /\ emitted'.sent[1].endpoint = <<"/", "send_group_msg">>
                   /\ emitted'.sent[1].target = "group_id"
                   /\ emitted'.sent[1].id = IdOf(emitted'.to)
             /\ (configured /\ private) =>
                   /\ ~emitted'.thrown
                   /\ Len(emitted'.sent) = 1
                   /\ emitted'.sent[1].endpoint = <<"/", "send_private_msg">>
                   /\ emitted'.sent[1].target = "user_id"
                   /\ emitted'.sent[1].id = IdOf(emitted'.to)
             /\ (~configured \/ (~group /\ ~private)) =>
                   (emitted'.thrown /\ emitted'.sent = <<>>)]_vars

\* ---- Sessions of different accounts ----

\* What an account's session owns: its socket and that socket's state, its
\* counter, its closing flag, its reconnect timers, and the pending-request table
\* and socket of the client it holds
SessionOf(a) ==
    [ws |-> rt[a].ws, reconnectAttempts |-> rt[a].reconnectAttempts,
     isClosing |-> rt[a].isClosing, phase |-> rt[a].phase,
     socks |-> socks[a], timers |-> timers[a],
     pending |-> api[ClientKey(a)].responseEmitter,
     armed |-> api[ClientKey(a)].timeouts,
     clientWs |-> api[ClientKey(a)].ws]

\* C21: every step of the session of one account (start, open, frame, error,
\* close, reconnect timer and the scheduling it does, exhaustion of the attempts,
\* request timeout, stop) leaves the socket, the counter, the closing flag, the
\* timers and the pending-request table of every other account as they were; when
\* one session reports that its reconnect attempts are exhausted, the others keep
\* running with their connections
C21_AccountIndependence ==
    [][\A a \in PairAccounts :
          last'.by # a =>
             /\ SessionOf(a)' = SessionOf(a)
             /\ "maxReconnect" \in out'.errors =>
                   (/\ rt'[a].isClosing = rt[a].isClosing
                    /\ rt'[a].ws = rt[a].ws
                    /\ socks'[a] = socks[a])]_vars

\* The session of the default account has exhausted its attempts while the
\* session of the other account is connected, with its login call pending
C21_Witness ==
    /\ last.by = "default"
    /\ "maxReconnect" \in out.errors
    /\ rt["default"].reconnectAttempts = maxReconnectAttempts
    /\ ~rt["second"].isClosing
    /\ rt["second"].ws # NULL
    /\ socks["second"][rt["second"].ws].readyState = "OPEN"
    /\ api[ClientKey("second")].responseEmitter # {}

\* A frame with the token of the other account's pending call arrived on the
\* default account's socket: that call is still pending
C21_WitnessSameToken ==
    /\ last.by = "default"
    /\ last.op = "frame"
    /\ api[ClientKey("default")].calls # <<>>
    /\ api[ClientKey("default")].responseEmitter = {}
    /\ api[ClientKey("second")].responseEmitter # {}
    /\ \A l \in api[ClientKey("second")].responseEmitter :
          api[ClientKey("default")].calls[1].echo = l.echo

\* ---- Suppressed duplicates and media-bearing sends ----

\* C35: a suppressed duplicate leaves the recent-reply table as it was, so the
\* window runs from the reply that was sent: the text-only reply of the same key
\* and text that follows a suppressed one is suppressed exactly when the record
\* that suppressed the first is still less than 5000 ms old, and is sent otherwise
\* (replies at 0, 4999 and 5000 ms: sent, suppressed, sent)
C35_SuppressedLeavesRecord ==
    [][/\ (Delivered /\ emitted'.verdict = "suppressed") =>
             (recentReplies' = recentReplies /\ sending' = sending)
       /\ (/\ emitted.op = "deliver" /\ emitted.verdict = "suppressed"
           /\ Delivered /\ emitted'.media = <<>>
           /\ emitted'.key = emitted.key /\ emitted'.text = emitted.text) =>
             /\ RecordedText(recentReplies, emitted.key, emitted.text) # {}
             /\ \A e \in RecordedText(recentReplies, emitted.key, emitted.text) :
                   /\ clock - e.timestamp < REPLY_DEDUP_WINDOW_MS
                   /\ emitted'.verdict =
                         IF clock' - e.timestamp < REPLY_DEDUP_WINDOW_MS
                         THEN "suppressed" ELSE "send"]_vars

\* A duplicate was suppressed at 4999 ms: the only record is the one of the reply
\* sent at 0 ms, and no send is in flight
C35_Witness ==
    /\ emitted.op = "deliver"
    /\ emitted.verdict = "suppressed"
    /\ emitted.text = <<"b">>
    /\ clock = 4999
    /\ recentReplies = {[key |-> emitted.key, text |-> <<"b">>, timestamp |-> 0]}
    /\ sending = EmptyBag

\* C37: the successful send of a reply with media records the reply's text for
\* its key; the text-only reply with the same key and text delivered next, less
\* than 5000 ms after the media-bearing one, is suppressed; a reply with media is
\* always sent
C37_MediaSendRecorded ==
    [][/\ (Settled /\ emitted'.ok /\ emitted'.media # <<>>) =>
             [key |-> emitted'.key, text |-> emitted'.text,
              timestamp |-> emitted'.now] \in recentReplies'
       /\ (/\ emitted.op = "settle" /\ emitted.ok /\ emitted.media # <<>>
           /\ Delivered /\ emitted'.media = <<>> /\ Truthy(emitted'.text)
           /\ emitted'.key = emitted.key /\ emitted'.text = emitted.text
           /\ clock' - emitted.now < REPLY_DEDUP_WINDOW_MS) =>
             (emitted'.verdict = "suppressed" /\ emitted'.sent = <<>>)
       /\ (Delivered /\ emitted'.media # <<>>) =>
             (emitted'.verdict = "send" /\ Len(emitted'.sent) = 1)]_vars

\* The send of a reply with text and media succeeded and its text is recorded
C37_Witness ==
    /\ emitted.op = "settle"
    /\ emitted.ok
    /\ emitted.media # <<>>
    /\ emitted.text = <<"a">>
    /\ [key |-> emitted.key, text |-> <<"a">>, timestamp |-> emitted.now] \in recentReplies

\* ---- Plain text of a segmented message ----

\* The texts of the text segments of a sequence, in order, one after the other
RECURSIVE Flatten(_)
Flatten(texts) ==
    IF texts = <<>> THEN <<>> ELSE Flatten(SubSeq(texts, 1, Len(texts) - 1)) \o texts[Len(texts)]

IsTextSeg(seg) == seg.type = "text"

TextOfSegments(segs) ==
    Flatten([i \in DOMAIN SelectSeq(segs, IsTextSeg) |-> SelectSeq(segs, IsTextSeg)[i].text])

\* A segmented message was handed to the dispatcher
SegmentedDispatched ==
    /\ emitted.op = "onMessage"
    /\ emitted.verdict = "dispatch"
    /\ emitted.message.message.form = "array"

\* C31 (as claimed): the plain text of a segmented message is the concatenation,
\* in order, of the texts of its text segments; mention, image and unknown
\* segments contribute no text
C31_TextIsConcatenation ==
    SegmentedDispatched =>
        emitted.ctx[1].RawBody = TextOfSegments(emitted.message.message.segs)

\* C31 (amended): the plain text is that concatenation with the white space at
\* its two ends removed (white space between the texts is kept); mention and
\* unknown segments contribute nothing; when the message has an image segment
\* with a reference, the text, or the placeholder [Image] when the text is empty,
\* is followed by the annotation of the reference of the first image segment
C31_TextOfSegments ==
    SegmentedDispatched =>
        LET segs == emitted.message.message.segs
            text == Trim(TextOfSegments(segs))
            images == SelectSeq(segs, LAMBDA seg : seg.type = "image")
            ref == IF images = <<>> THEN <<>>
                   ELSE IF images[1].url # <<>> THEN images[1].url ELSE images[1].file
        IN emitted.ctx[1].RawBody =
              IF ref = <<>> THEN text
              ELSE (IF text = <<>> THEN <<"[Image]">> ELSE text)
                   \o <<"\n", "[MediaUrl: ">> \o ref \o <<"]">>

\* The message "hello ", mention of self, " world" was dispatched with both inner
\* spaces in its text
C31_Witness ==
    /\ SegmentedDispatched
    /\ emitted.message.message.segs =
          <<TextSeg(<<"hello", " ">>), AtSeg(NumQQ(SelfId)), TextSeg(<<" ", "world">>)>>
    /\ emitted.ctx[1].RawBody = <<"hello", " ", " ", "world">>

\* A message of a mention and two images was dispatched as placeholder and annotation
C31_WitnessImage ==
    /\ SegmentedDispatched
    /\ Len(emitted.message.message.segs) = 3
    /\ emitted.ctx[1].RawBody = <<"[Image]", "\n", "[MediaUrl: ">> \o Url1 \o <<"]">>

\* A mention followed by " hi " was dispatched with the text "hi"
C31_WitnessTrimmed ==
    /\ SegmentedDispatched
    /\ emitted.message.message.segs =
          <<AtSeg(NumQQ(SelfId)), TextSeg(<<" ", "hi", " ">>)>>
    /\ emitted.ctx[1].RawBody = <<"hi">>

\* ---- One connection attempt at a time ----

\* The sockets whose event handlers are attached
AttachedSockets == {s \in SockIds : socks[s].attached}

\* The connection attempts under way: a start() suspended at its login
\* verification, and the attached sockets that are connecting or open
Attempts ==
    Cardinality({s \in AttachedSockets : socks[s].readyState \in {"CONNECTING", "OPEN"}})
    + (IF rt.awaiting THEN 1 ELSE 0)

\* C34: a session has at most one socket with attached handlers and at most one
\* pending reconnect timer, no pending reconnect timer while an attached socket
\* is open, and never two connection attempts at once: of a pending timer, a
\* start() in progress and a connecting or open socket there is at most one
C34_OneAttempt ==
    /\ Cardinality(AttachedSockets) <= 1
    /\ Len(timers) <= 1
    /\ \A s \in AttachedSockets : socks[s].readyState = "OPEN" => timers = <<>>
    /\ Attempts + Len(timers) <= 1

\* After two failed attempts the third is scheduled: one timer, and the socket of
\* the second attempt, closed, is the only one attached
C34_Witness ==
    /\ Len(timers) = 1
    /\ rt.reconnectAttempts = 3
    /\ last.op = "close"
    /\ Cardinality(AttachedSockets) = 1
    /\ \A s \in AttachedSockets : socks[s].readyState = "CLOSED"

\* A reconnect is suspended at its login verification: no timer, no socket attached
C34_WitnessAwaiting ==
    /\ rt.awaiting
    /\ rt.reconnectAttempts > 0
    /\ last.op = "timer"
    /\ timers = <<>>
    /\ AttachedSockets = {}

\* ---- Completion of socket calls ----

\* C33: under fairness of the request timers every call that was sent on a socket
\* is eventually resolved or rejected, whether a response arrives, none arrives,
\* or the socket closes or the session is stopped while the call is pending
C33_SocketCallsComplete ==
    \A i \in 1..MaxCalls :
       (i \in WsCalls /\ api.calls[i].outcomes = <<>>)
          ~> (i \in WsCalls /\ api.calls[i].outcomes # <<>>)

\* A call sent on a socket timed out after the session was stopped and its socket
\* had closed
C33_Witness ==
    /\ last.op = "timeout"
    /\ rt.isClosing
    /\ \E i \in WsCalls : api.calls[i].outcomes = <<"timeout">>
    /\ \A s \in SockIds : socks[s].readyState = "CLOSED"

\* ---- The registries of sessions and clients ----

\* The step is startAccount, or the stop function, for account a
StartAccountStep(a) == last'.op = "startAccount" /\ last'.by = a
StopFunctionStep(a) == last'.op = "stopFn" /\ last'.by = a

\* The session, sockets, timers and client of every account
Sessions == <<rt, socks, timers, api>>

\* The entries of the accounts other than a
OthersRegistered(a) == <<ActiveRuntimes \ {a}, ApiClients \ {a}>>

\* C32: each account id has at most one registered session, and the client
\* of a registered session is registered; startAccount for a registered id
\* returns null and creates no session and no socket, for an id that is not
\* registered it registers a session and a client; the stop function stops the
\* registered session (closing flag set, no socket connecting or open) and
\* removes the id from both registries; neither touches the entries of other ids
C32_Registry ==
    /\ [](ActiveRuntimes \subseteq ApiClients)
    /\ [][\A a \in PairAccounts :
            /\ (StartAccountStep(a) /\ a \in ActiveRuntimes) =>
                  (emitted'.returned = "null" /\ Sessions' = Sessions)
            /\ (StartAccountStep(a) /\ a \notin ActiveRuntimes) =>
                  /\ emitted'.returned = "stop"
                  /\ a \in ActiveRuntimes' /\ a \in ApiClients'
                  /\ OthersRegistered(a)' = OthersRegistered(a)
            /\ (StopFunctionStep(a) /\ a \in ActiveRuntimes) =>
                  /\ a \notin ActiveRuntimes' /\ a \notin ApiClients'
                  /\ rt'[a].isClosing /\ rt'[a].ws = NULL
                  /\ \A s \in SockIds :
                        socks'[a][s].readyState \notin {"CONNECTING", "OPEN"}
                  /\ OthersRegistered(a)' = OthersRegistered(a)]_vars

\* The stop function of the default account has run while its socket was open:
\* the account is in neither registry, the other account is in both
C32_Witness ==
    /\ last.op = "stopFn"
    /\ last.by = "default"
    /\ emitted.found
    /\ ActiveRuntimes = {"second"}
    /\ ApiClients = {"second"}
    /\ \E s \in SockIds : socks["default"][s].readyState = "CLOSING"

\* startAccount returned null for an account whose session is connected
C32_WitnessNull ==
    /\ last.op = "startAccount"
    /\ last.by = "second"
    /\ emitted.returned = "null"
    /\ rt["second"].ws # NULL
    /\ socks["second"][rt["second"].ws].readyState = "OPEN"

\* The session of account a has given up: its start reported the configuration
\* error, or its reconnect attempts are exhausted
ConfigFailed(a) ==
    rt[a].phase = "running" /\ ~Truthy(account.wsUrl) /\ ~Truthy(account.httpUrl)

Exhausted(a) ==
    /\ rt[a].reconnectAttempts = maxReconnectAttempts
    /\ timers[a] = <<>>
    /\ \A s \in SockIds : socks[a][s].readyState = "CLOSED"

\* C36: only startAccount and the stop function change the registries, whatever
\* the sessions report; a session that was started stays registered until the stop
\* function has run; startAccount for an account whose session has reported the
\* configuration error or has exhausted its reconnect attempts returns null and
\* creates nothing, and after the stop function has run it creates a session again
C36_FailuresKeepRegistry ==
    /\ [](\A a \in PairAccounts :
            rt[a].phase # "new" => (a \in ActiveRuntimes <=> ~rt[a].isClosing))
    /\ [][/\ last'.op \notin {"startAccount", "stopFn"} =>
               (ActiveRuntimes' = ActiveRuntimes /\ ApiClients' = ApiClients)
          /\ \A a \in PairAccounts :
                /\ (last'.by = a /\ out'.errors \cap {"config", "maxReconnect"} # {}) =>
                      a \in ActiveRuntimes'
                /\ (/\ StartAccountStep(a)
                    /\ ConfigFailed(a) \/ Exhausted(a)) =>
                      IF rt[a].isClosing
                      THEN emitted'.returned = "stop" /\ a \in ActiveRuntimes'
                      ELSE emitted'.returned = "null" /\ Sessions' = Sessions]_vars

\* startAccount returned null for the account whose attempts are exhausted
C36_Witness ==
    /\ last.op = "startAccount"
    /\ last.by = "default"
    /\ emitted.returned = "null"
    /\ Exhausted("default")
    /\ ~rt["default"].isClosing

\* startAccount returned null for the account whose start reported the
\* configuration error
C36_WitnessConfig ==
    /\ last.op = "startAccount"
    /\ last.by = "second"
    /\ emitted.returned = "null"
    /\ ConfigFailed("second")
    /\ ~rt["second"].isClosing

====
